---- MODULE Spec2Model ----
(***************************************************************************)
(* A model of DIRAC/Core/Utilities/MySQL.py: the per-thread connection     *)
(* pool (MySQL.ConnectionPool), the query/transaction primitives built on  *)
(* it, the condition builder and the table-creation ordering.              *)
(*                                                                         *)
(* The pool code takes no lock.  Every access it makes to the shared       *)
(* mapping __assigned and to the deque __spares is one step of the calling *)
(* thread, and steps of different threads interleave freely.               *)
(***************************************************************************)
EXTENDS Integers, Sequences, FiniteSets, TLC

(***************************************************************************)
(* Program constants.                                                      *)
(***************************************************************************)
MAXCONNECTRETRY == 10
maxSpares == 10
graceTime == 600

(***************************************************************************)
(* Bounds of the model.                                                    *)
(***************************************************************************)
\* the clock stops here
MaxNow == 601
\* faults the driver reports to healthy connections in a run of SpecFaults
\* (a failed connect, ping, select_db or execute)
MaxFaults == 2
\* calls of get() started in a run
MaxCalls == 3
\* connections the pool opens in a run, beyond those present initially
MaxNewConns == 4
\* statements in the list given to _transaction
MaxCmds == 3

Threads == {"t1", "t2"}
DbNames == {"db1", "db2"}
\* values of the `retries` argument of get(); -1 and 11 are clamped
RetryInputs == {-1, 0, 11}
\* the clock advances by one of these amounts: an idle time that clean()
\* still tolerates, and the first one it does not
TimeSteps == {graceTime, graceTime + 1}

VARIABLES
  assigned,   \* ConnectionPool.__assigned: thread -> [conn, db, ts] or NoEntry
  spares,     \* ConnectionPool.__spares: sequence of [conn, db], right end last
  closed,     \* connections on which close() was called
  opened,     \* number of connections MySQLdb.connect() has returned
  connDb,     \* per connection: the schema selected on the server side
  now,        \* time.time()
  budget,     \* faults the driver may still report to a healthy connection
  alive,      \* thread -> thid.isAlive()
  calls,      \* calls of get() started so far
  pc,         \* thread -> position in the code
  loc,        \* thread -> local variables of the call in progress
  using,      \* thread -> connection a caller is operating on (0: none)
  result,     \* thread -> outcome of the last finished operation
  autocommit, \* per connection: the session's autocommit mode
  tx,         \* thread -> locals of _transaction and its effects so far
  persisted,  \* thread -> statements of its batch whose effect is durable
  op,         \* thread -> the helper (getFields, ...) it is running
  ct,         \* locals of _createTables and the statements it has sent
  existing,   \* tables present in the database
  instances   \* MySQL.__connectionPools, the pools created and the MySQL objects

vars == <<assigned, spares, closed, opened, connDb, now, budget, alive, calls,
          pc, loc, using, result, autocommit, tx, persisted, op, ct, existing,
          instances>>

\* what the pool does not touch
layerVars == <<tx, persisted, op, ct, existing, instances>>

NoConn == 0
NoEntry == [conn |-> NoConn, db |-> "", ts |-> 0]
\* connections present in the initial pool
InitialConns == maxSpares + 1
Conns == 1 .. (InitialConns + MaxNewConns)

NoResult == [kind |-> "none", diag |-> FALSE, conn |-> NoConn]
\* locals of get()/clean()/__getWithRetry()/__innerGet()/__pop(); cstart
\* remembers __assigned, __spares and the closed connections as they were
\* when clean() was entered, for as long as clean() runs
NoLocals == [db |-> "", total |-> 0, left |-> 0,
             cnow |-> 0, clist |-> <<>>, pdata |-> NoEntry,
             inow |-> 0, conn |-> NoConn, last |-> "", held |-> NoConn,
             gotDb |-> "", gotMark |-> "", slept |-> <<>>, cstart |-> <<>>]

Max(a, b) == IF a > b THEN a ELSE b
Min(a, b) == IF a < b THEN a ELSE b

\* retries = max( 0, min( MAXCONNECTRETRY, retries ) )
ClampRetries(r) == Max(0, Min(MAXCONNECTRETRY, r))

\* list( self.__assigned ): the keys, in the dictionary's (arbitrary) order
KeyLists ==
  LET keys == {t \in Threads : assigned[t] # NoEntry}
  IN  {s \in UNION {[1..n -> keys] : n \in {Cardinality(keys)}} :
         \A i, j \in DOMAIN s : i # j => s[i] # s[j]}

(***************************************************************************)
(* Python values and text.  A value carries its type, its str() as a text  *)
(* and, for a list, tuple or dictionary, its items in iteration order (the *)
(* items of a dictionary are [name, value] pairs).  A text is a sequence   *)
(* of tokens; the backtick, ":", ",", " ", the quote characters and the    *)
(* backslash are tokens of one character.                                  *)
(***************************************************************************)
DoubleQuote == "<dq>"
SingleQuote == "<sq>"
BackSlash == "<bs>"
BackTick == "<bt>"

PyVal(ty, s, items) == [ty |-> ty, s |-> s, items |-> items]
PyNone == PyVal("none", <<"None">>, <<>>)
PyStr(s) == PyVal("str", s, <<>>)
PyInt(tok) == PyVal("int", <<tok>>, <<>>)
PyBool(b) == PyVal("bool", <<IF b THEN "True" ELSE "False">>, <<>>)
PyList(items) == PyVal("list", <<>>, items)
PyTuple(items) == PyVal("tuple", <<>>, items)
PyDict(items) == PyVal("dict", <<>>, items)

\* the truth value `if v:' tests
Truthy(v) ==
  CASE v.ty = "none" -> FALSE
    [] v.ty = "str"  -> v.s # <<>>
    [] v.ty = "int"  -> v.s # <<"0">>
    [] v.ty = "bool" -> v.s = <<"True">>
    [] OTHER         -> v.items # <<>>

\* len( v ), defined for strings and containers
HasLen(v) == v.ty \in {"str", "list", "tuple", "dict"}
PyLen(v) == IF v.ty = "str" THEN Len(v.s) ELSE Len(v.items)

\* sep.join( texts )
RECURSIVE Join(_, _)
Join(sep, texts) ==
  IF texts = <<>> THEN <<>>
  ELSE IF Len(texts) = 1 THEN texts[1]
  ELSE texts[1] \o <<sep>> \o Join(sep, Tail(texts))

\* s.split( sep )
RECURSIVE Split(_, _)
Split(s, sep) ==
  IF \A i \in DOMAIN s : s[i] # sep THEN <<s>>
  ELSE LET k == CHOOSE i \in DOMAIN s : s[i] = sep /\ \A j \in 1 .. (i - 1) : s[j] # sep
       IN  <<SubSeq(s, 1, k - 1)>> \o Split(SubSeq(s, k + 1, Len(s)), sep)

\* s.strip()
RECURSIVE Strip(_)
Strip(s) ==
  IF s = <<>> THEN s
  ELSE IF Head(s) = " " THEN Strip(Tail(s))
  ELSE IF s[Len(s)] = " " THEN Strip(SubSeq(s, 1, Len(s) - 1))
  ELSE s

\* s.replace( tok, '' )
Remove(s, tok) == SelectSeq(s, LAMBDA c : c # tok)

\* s.upper()
UpperTok(c) ==
  CASE c = "a"    -> "A"
    [] c = "b"    -> "B"
    [] c = "x"    -> "X"
    [] c = "y"    -> "Y"
    [] c = "asc"  -> "ASC"
    [] c = "Desc" -> "DESC"
    [] c = "up"   -> "UP"
    [] OTHER      -> c
Upper(s) == [i \in DOMAIN s |-> UpperTok(s[i])]

\* s.isalnum()
AlnumToks == {"a", "b", "x", "y", "A", "B", "X", "Y", "asc", "Desc", "up", "ASC", "DESC",
              "UP", "0", "1", "5", "DAY", "None", "True", "False"}
IsAlnum(s) == s # <<>> /\ \A i \in DOMAIN s : s[i] \in AlnumToks

(***************************************************************************)
(* _quotedList: None for None, for a collection that is not iterable, has  *)
(* an item without replace() or is empty; else the items, each without     *)
(* its backticks and between backticks, joined by ", ".  The result is     *)
(* [none, text].                                                           *)
(***************************************************************************)
NoneText == [none |-> TRUE, text |-> <<>>]
SomeText(s) == [none |-> FALSE, text |-> s]
\* `if not q:'
Falsy(q) == q.none \/ q.text = <<>>

\* the quoting as it would be if the name were taken as it is
QuotedFieldAsGiven(field) == <<BackTick>> \o field \o <<BackTick>>

\* '`%s`' % field.replace( '`', '' )
QuotedField(field) == <<BackTick>> \o Remove(field, BackTick) \o <<BackTick>>

QuotedList(fieldList) ==
  LET fields == IF fieldList.ty = "str"
                  THEN [i \in DOMAIN fieldList.s |-> PyStr(<<fieldList.s[i]>>)]
                  ELSE fieldList.items
  IN  IF fieldList.ty \notin {"str", "list", "tuple"} THEN NoneText
      ELSE IF \E i \in DOMAIN fields : fields[i].ty # "str" THEN NoneText
      ELSE IF fields = <<>> THEN NoneText
      ELSE SomeText(Join(", ", [i \in DOMAIN fields |-> QuotedField(fields[i].s)]))

\* _checkFields: TRUE for S_OK
CheckFields(inFields, inValues) ==
  IF inFields.ty = "none" /\ inValues.ty = "none" THEN TRUE
  ELSE IF ~HasLen(inFields) \/ ~HasLen(inValues) THEN FALSE
  ELSE PyLen(inFields) = PyLen(inValues)

(***************************************************************************)
(* __escapeString, after it has obtained its connection.  The result is    *)
(* [ok, text, msg].                                                        *)
(***************************************************************************)
TimeUnits == {"MICROSECOND", "SECOND", "MINUTE", "HOUR", "DAY", "WEEK", "MONTH",
              "QUARTER", "YEAR"}
TimeFuncs == {"TIMESTAMPDIFF(", "TIMESTAMPADD("}

\* __isDateTime, for texts that hold no date
IsDateTime(s) == s = <<"UTC_TIMESTAMP()">>

\* connection.escape_string: a backslash before quotes and backslashes
RECURSIVE EscapeText(_)
EscapeText(s) ==
  IF s = <<>> THEN <<>>
  ELSE (IF Head(s) \in {DoubleQuote, SingleQuote, BackSlash}
          THEN <<BackSlash, Head(s)>> ELSE <<Head(s)>>)
         \o EscapeText(Tail(s))

EscapeOk(text) == [ok |-> TRUE, text |-> text, msg |-> ""]
EscapeError == [ok |-> FALSE, text |-> <<>>, msg |-> "Could not escape string"]

EscapeString(myString) ==
  LET s == myString.s
      t == Strip(s)
  IN  IF t = <<"UTC_TIMESTAMP()">> THEN EscapeOk(s)
      ELSE IF Len(t) >= 2 /\ t[1] \in TimeFuncs /\ t[Len(t)] = ")"
        THEN LET inner == Strip(Remove(SubSeq(t, 1, Len(t) - 1), t[1]))
                 args == Split(inner, ",")
             IN  IF Len(args) # 3 THEN EscapeError
                 ELSE LET arg1 == Strip(args[1])
                          arg2 == Strip(args[2])
                          arg3 == Strip(args[3])
                      IN  IF /\ Len(arg1) = 1 /\ arg1[1] \in TimeUnits
                             /\ (IsDateTime(arg2) \/ IsAlnum(arg2))
                             /\ (IsDateTime(arg3) \/ IsAlnum(arg3))
                            THEN EscapeOk(s)
                            ELSE EscapeError
      ELSE EscapeOk(<<DoubleQuote>> \o EscapeText(s) \o <<DoubleQuote>>)

(***************************************************************************)
(* _escapeValues.  The result is [ok, texts, esc, msg]; esc counts the     *)
(* calls of __escapeString, each of which starts with a call of get().     *)
(***************************************************************************)
EscapeStart == [ok |-> TRUE, texts |-> <<>>, esc |-> 0, msg |-> ""]

EscapeInto(acc, v) ==
  LET Into(r) == [ok |-> r.ok,
                  texts |-> IF r.ok THEN Append(acc.texts, r.text) ELSE acc.texts,
                  esc |-> acc.esc + 1,
                  msg |-> r.msg]
  IN  Into(EscapeString(v))

\* for v in list( value ): ... tupleValues.append( retDict['Value'] )
RECURSIVE EscapeItems(_, _)
EscapeItems(items, acc) ==
  IF items = <<>> \/ ~acc.ok THEN acc
  ELSE EscapeItems(Tail(items), EscapeInto(acc, Head(items)))

\* for value in inValues
RECURSIVE EscapeLoop(_, _)
EscapeLoop(vals, acc) ==
  IF vals = <<>> \/ ~acc.ok THEN acc
  ELSE LET value == Head(vals)
           Tuple(r) == [r EXCEPT !.texts =
                          IF r.ok
                            THEN Append(acc.texts, <<"(">> \o Join(", ", r.texts) \o <<")">>)
                            ELSE acc.texts]
       IN  EscapeLoop(Tail(vals),
             CASE value.ty = "str" -> EscapeInto(acc, value)
               [] value.ty \in {"tuple", "list"} ->
                    Tuple(EscapeItems(value.items, [EscapeStart EXCEPT !.esc = acc.esc]))
               [] value.ty = "bool" ->
                    \* inEscapeValues = [str( value )]
                    [acc EXCEPT !.texts = <<value.s>>]
               [] OTHER -> EscapeInto(acc, PyStr(value.s)))

EscapeValues(inValues) ==
  IF ~Truthy(inValues) THEN EscapeStart ELSE EscapeLoop(inValues.items, EscapeStart)

(***************************************************************************)
(* buildCondition.  Its state is the condition built so far, the           *)
(* conjunction to use next, the message of the exception it has raised     *)
(* ("" if none), the number of __escapeString calls made and the local     *)
(* attrName.                                                               *)
(***************************************************************************)
CondStart == [cond |-> <<>>, conj |-> "WHERE", err |-> "", esc |-> 0, attr |-> NoneText,
              bound |-> FALSE]

\* the term as it would be added if the conjunction stayed as it is
TermSameConjunction(st, name, opr, value, andAfter) ==
  [st EXCEPT !.cond = <<" ">> \o st.cond \o <<" ", st.conj, " ">> \o name \o <<opr>> \o value]

\* condition = ' %s %s %s <opr> %s' % ( condition, conjunction, name, value )
Term(st, name, opr, value, andAfter) ==
  [st EXCEPT !.cond = <<" ">> \o st.cond \o <<" ", st.conj, " ">> \o name \o <<opr>> \o value,
             !.conj = IF andAfter THEN "AND" ELSE st.conj]

\* retDict = self._escapeValues( ... ): raise Exception( retDict['Message'] )
\* or add the term
EscapedTerm(st, name, opr, value, isList, andAfter) ==
  LET Escaped(r) ==
        LET s2 == [st EXCEPT !.esc = st.esc + r.esc]
        IN  IF ~r.ok THEN [s2 EXCEPT !.err = r.msg]
            ELSE IF isList
              THEN Term(s2, name, " IN ( ", Join(", ", r.texts) \o <<" )">>, TRUE)
              ELSE Term(s2, name, opr, r.texts[1], andAfter)
  IN  Escaped(EscapeValues(IF isList THEN value ELSE PyList(<<value>>)))

\* for aName, attrValue in condDict.iteritems()
RECURSIVE CondDictLoop(_, _)
CondDictLoop(entries, st) ==
  IF entries = <<>> \/ st.err # "" THEN st
  ELSE LET aName == Head(entries).name
           attrValue == Head(entries).value
           quoted == QuotedList(IF aName.ty = "str" THEN PyList(<<aName>>)
                                                    ELSE PyList(aName.items))
       IN  IF aName.ty = "tuple" /\ quoted.none
             THEN \* '(' + None + ')'
                  [st EXCEPT !.err = "TypeError"]
           ELSE IF aName.ty \notin {"str", "tuple"} /\ ~st.bound
             THEN \* attrName is read before any assignment
                  [st EXCEPT !.err = "UnboundLocalError"]
           ELSE LET attrName == IF aName.ty = "str" THEN quoted
                                ELSE IF aName.ty = "tuple"
                                  THEN SomeText(<<"(">> \o quoted.text \o <<")">>)
                                ELSE st.attr
                    s2 == [st EXCEPT !.attr = attrName, !.bound = TRUE]
                IN  IF Falsy(attrName)
                      THEN [s2 EXCEPT !.err = "Invalid condDict argument"]
                      ELSE CondDictLoop(Tail(entries),
                                        EscapedTerm(s2, attrName.text, " = ", attrValue,
                                                    attrValue.ty = "list", TRUE))

\* if timeStamp: ... if newer: ... if older: ...
TimeStage(a, st) ==
  IF st.err # "" \/ ~Truthy(a.timeStamp) THEN st
  ELSE LET timeStamp == QuotedList(PyList(<<a.timeStamp>>))
           Older(s2) == IF s2.err # "" \/ ~Truthy(a.older) THEN s2
                        ELSE \* the conjunction is left as it is
                             EscapedTerm(s2, timeStamp.text, " < ", a.older, FALSE, FALSE)
       IN  IF Falsy(timeStamp) THEN [st EXCEPT !.err = "Invalid timeStamp argument"]
           ELSE Older(IF Truthy(a.newer)
                        THEN EscapedTerm(st, timeStamp.text, " >= ", a.newer, FALSE, TRUE)
                        ELSE st)

\* for attrName, attrValue in greater.iteritems() / smaller.iteritems()
RECURSIVE RangeLoop(_, _, _, _)
RangeLoop(entries, st, opr, msg) ==
  IF entries = <<>> \/ st.err # "" THEN st
  ELSE LET attrName == QuotedList(PyList(<<Head(entries).name>>))
       IN  IF Falsy(attrName) THEN [st EXCEPT !.err = msg]
           ELSE RangeLoop(Tail(entries),
                          EscapedTerm(st, attrName.text, opr, Head(entries).value, FALSE, TRUE),
                          opr, msg)

RangeStage(a, st) ==
  LET Smaller(s2) == IF a.smaller.ty = "dict"
                       THEN RangeLoop(a.smaller.items, s2, " < ", "Invalid smaller argument")
                       ELSE s2
  IN  Smaller(IF a.greater.ty = "dict"
                THEN RangeLoop(a.greater.items, st, " >= ", "Invalid greater argument")
                ELSE st)

\* the pass as it would be if every direction were accepted as it is given
OrderEntryAnyDirection(orderAttr) ==
  IF orderAttr.ty = "str"
    THEN [err |-> "", skip |-> FALSE, text |-> orderAttr.s]
    ELSE [err |-> "", skip |-> TRUE, text |-> <<>>]

\* one pass of `for orderAttr in orderAttrList': [err, skip, text]
OrderEntry(orderAttr) ==
  IF orderAttr.ty = "none" THEN [err |-> "", skip |-> TRUE, text |-> <<>>]
  ELSE IF orderAttr.ty # "str"
    THEN [err |-> "Invalid orderAttribute argument", skip |-> FALSE, text |-> <<>>]
  ELSE LET parts == Split(orderAttr.s, ":")
           orderField == QuotedList(PyList(<<PyStr(parts[1])>>))
       IN  IF Falsy(orderField)
             THEN [err |-> "Invalid orderAttribute argument", skip |-> FALSE, text |-> <<>>]
           ELSE IF Len(parts) = 2
             THEN LET orderType == Upper(parts[2])
                  IN  IF orderType \in {<<"ASC">>, <<"DESC">>}
                        THEN [err |-> "", skip |-> FALSE,
                              text |-> orderField.text \o <<" ">> \o orderType]
                        ELSE [err |-> "Invalid orderAttribute argument", skip |-> FALSE,
                              text |-> <<>>]
           ELSE \* orderList.append( orderAttr )
                [err |-> "", skip |-> FALSE, text |-> orderAttr.s]

RECURSIVE OrderLoop(_, _)
OrderLoop(orderAttrList, acc) ==
  IF orderAttrList = <<>> \/ acc.err # "" THEN acc
  ELSE LET e == OrderEntry(Head(orderAttrList))
       IN  OrderLoop(Tail(orderAttrList),
                     [err |-> e.err,
                      list |-> IF e.err = "" /\ ~e.skip THEN Append(acc.list, e.text)
                                                        ELSE acc.list])

OrderStage(a, st) ==
  IF st.err # "" THEN st
  ELSE LET orderAttrList == IF a.order.ty = "list" THEN a.order.items ELSE <<a.order>>
           r == OrderLoop(orderAttrList, [err |-> "", list |-> <<>>])
       IN  IF r.err # "" THEN [st EXCEPT !.err = r.err]
           ELSE IF r.list # <<>>
             THEN [st EXCEPT !.cond = st.cond \o <<" ORDER BY ">> \o Join(", ", r.list)]
           ELSE st

\* if limit: "%s LIMIT %d OFFSET %d" or "%s LIMIT %d"
LimitStage(a, st) ==
  IF st.err # "" \/ a.limit = 0 THEN st
  ELSE IF a.offset # 0
    THEN [st EXCEPT !.cond = st.cond \o <<" LIMIT ", ToString(a.limit), " OFFSET ",
                                          ToString(a.offset)>>]
  ELSE [st EXCEPT !.cond = st.cond \o <<" LIMIT ", ToString(a.limit)>>]

BuildCondition(a) ==
  LimitStage(a, OrderStage(a, RangeStage(a, TimeStage(a,
    IF a.condDict.ty = "none" THEN CondStart
    ELSE CondDictLoop(a.condDict.items, CondStart)))))

(***************************************************************************)
(* The helpers built on buildCondition.  The arguments of a call are       *)
(* [table, attrs, values, condDict, older, newer, timeStamp, order, limit, *)
(* offset, greater, smaller]; attrs is attrList, attribute, outFields,     *)
(* updateFields or inFields, and values is updateValues or inValues.       *)
(***************************************************************************)
NoArgs == [table |-> PyNone, attrs |-> PyNone, values |-> PyNone, condDict |-> PyNone,
           older |-> PyNone, newer |-> PyNone, timeStamp |-> PyNone, order |-> PyNone,
           limit |-> 0, offset |-> 0, greater |-> PyNone, smaller |-> PyNone]

Helpers == {"buildCondition", "countEntries", "getCounters", "getDistinctAttributeValues",
            "getFields", "deleteEntries", "updateFields", "insertFields"}

\* the arguments the helper hands to buildCondition
CondArgs(h, a) ==
  CASE h = "buildCondition" -> a
    [] h \in {"countEntries", "getCounters", "getDistinctAttributeValues"} ->
         [a EXCEPT !.order = PyNone, !.limit = 0, !.offset = 0,
                   !.greater = PyNone, !.smaller = PyNone]
    [] h = "getFields" ->
         [a EXCEPT !.condDict = IF a.condDict.ty = "none" THEN PyDict(<<>>) ELSE a.condDict,
                   !.greater = PyNone, !.smaller = PyNone]
    [] OTHER ->
         [a EXCEPT !.offset = 0, !.greater = PyNone, !.smaller = PyNone]

\* how a call goes: the number of __escapeString calls it makes, then
\* "sql" (the statement text goes to _query/_update), "value" (a success
\* value is returned without a statement), "error" (S_ERROR is returned) or
\* "raised" (an exception leaves the call); config tells a failure that is
\* not an escaping failure
PlanEnd(esc, outcome, config, msg, text) ==
  [esc |-> esc, outcome |-> outcome, config |-> config, msg |-> msg, text |-> text]

\* try: cond = self.buildCondition( ... ) except Exception, x: return S_ERROR
WithCondition(bc, esc0, before, after) ==
  IF bc.err # ""
    THEN PlanEnd(esc0 + bc.esc, "error", bc.err # EscapeError.msg, bc.err, <<>>)
    ELSE PlanEnd(esc0 + bc.esc, "sql", FALSE, "", before \o <<" ">> \o bc.cond \o after)

\* ','.join( ['%s = %s' % ( _quotedList( [updateFields[k]] ), updateValues[k] ) ... ] )
UpdateString(fields, texts) ==
  Join(",", [k \in DOMAIN fields |->
               LET q == QuotedList(PyList(<<fields[k]>>))
               IN  (IF q.none THEN <<"None">> ELSE q.text) \o <<" = ">> \o texts[k]])

\* the helper, given what _quotedList( [tableName] ), _quotedList of the
\* fields, _escapeValues of the values and buildCondition yield where the
\* helper calls them
HelperPlan(h, a, table, fields, ev, bc) ==
  LET badTable == PlanEnd(0, "error", TRUE, "Invalid table argument", <<>>)
      \* updateFields, from the return of buildCondition on
      Update(rest) ==
        IF rest.outcome # "sql" THEN rest
        ELSE IF Len(ev.texts) < Len(a.attrs.items)
          THEN \* updateValues[k] raises IndexError
               PlanEnd(rest.esc, "raised", FALSE, "IndexError", <<>>)
        ELSE PlanEnd(rest.esc, "sql", FALSE, "",
                     <<"UPDATE ">> \o table.text \o <<" SET ">>
                       \o UpdateString(a.attrs.items, ev.texts) \o rest.text)
  IN  CASE h = "buildCondition" ->
             IF bc.err # ""
               THEN PlanEnd(bc.esc, "raised", bc.err # EscapeError.msg, bc.err, <<>>)
               ELSE PlanEnd(bc.esc, "value", FALSE, "", bc.cond)
        [] h = "countEntries" ->
             IF Falsy(table) THEN badTable
             ELSE WithCondition(bc, 0, <<"SELECT COUNT(*) FROM ">> \o table.text, <<>>)
        [] h = "getCounters" ->
             \* attrNames
             IF Falsy(table) THEN badTable
             ELSE IF fields.none
               THEN PlanEnd(0, "error", TRUE, "Invalid updateFields argument", <<>>)
             ELSE WithCondition(bc, 0,
                    <<"SELECT ">> \o fields.text \o <<", COUNT(*) FROM ">> \o table.text,
                    <<" GROUP BY ">> \o fields.text \o <<" ORDER BY ">> \o fields.text)
        [] h = "getDistinctAttributeValues" ->
             \* attributeName
             IF Falsy(table) THEN badTable
             ELSE IF Falsy(fields)
               THEN PlanEnd(0, "error", TRUE, "Invalid attribute argument", <<>>)
             ELSE WithCondition(bc, 0,
                    <<"SELECT  DISTINCT( ">> \o fields.text \o <<" ) FROM ">> \o table.text,
                    <<" ORDER BY ">> \o fields.text)
        [] h = "getFields" ->
             \* quotedOutFields
             IF Falsy(table) THEN badTable
             ELSE IF fields.none
               THEN PlanEnd(0, "error", TRUE, "Invalid outFields arguments", <<>>)
             ELSE WithCondition(bc, 0,
                    <<"SELECT ">> \o fields.text \o <<" FROM ">> \o table.text, <<>>)
        [] h = "deleteEntries" ->
             IF Falsy(table) THEN badTable
             ELSE WithCondition(bc, 0, <<"DELETE FROM ">> \o table.text, <<>>)
        [] h = "updateFields" ->
             IF ~Truthy(a.attrs) THEN PlanEnd(0, "value", FALSE, "", <<>>)
             ELSE IF Falsy(table) THEN badTable
             ELSE IF ~CheckFields(a.attrs, a.values)
               THEN PlanEnd(0, "error", TRUE,
                            "Mismatch between updateFields and updateValues.", <<>>)
             ELSE IF ~ev.ok THEN PlanEnd(ev.esc, "error", FALSE, ev.msg, <<>>)
             ELSE IF \E k \in DOMAIN a.attrs.items : a.attrs.items[k].ty # "str"
               THEN \* ', '.join( updateFields ) raises TypeError
                    PlanEnd(ev.esc, "raised", FALSE, "TypeError", <<>>)
             ELSE Update(WithCondition(bc, ev.esc, <<>>, <<>>))
        [] OTHER -> \* insertFields; fields is inFieldString
             IF Falsy(table) THEN badTable
             ELSE IF ~CheckFields(a.attrs, a.values)
               THEN PlanEnd(0, "error", TRUE, "Mismatch between inFields and inValues.",
                            <<>>)
             ELSE IF fields.none
               THEN PlanEnd(0, "error", TRUE, "Invalid inFields arguments", <<>>)
             ELSE IF ~ev.ok THEN PlanEnd(ev.esc, "error", FALSE, ev.msg, <<>>)
             ELSE PlanEnd(ev.esc, "sql", FALSE, "",
                          <<"INSERT INTO ">> \o table.text \o <<" (  ">>
                            \o fields.text \o <<" ) VALUES (  ">>
                            \o Join(", ", ev.texts) \o <<" )">>)

\* the list the helper hands to _quotedList for its fields
HelperFields(h, a) ==
  CASE h = "getDistinctAttributeValues" -> PyList(<<a.attrs>>)
    [] h = "insertFields" -> IF a.attrs.ty = "none" THEN PyList(<<>>) ELSE a.attrs
    [] OTHER -> a.attrs

Plan(h, a) ==
  HelperPlan(h, a,
             QuotedList(PyList(<<a.table>>)),
             IF h = "getFields" /\ ~Truthy(a.attrs) THEN SomeText(<<"*">>)
                                                     ELSE QuotedList(HelperFields(h, a)),
             EscapeValues(a.values),
             BuildCondition(CondArgs(h, a)))

\* locals of _transaction: the list, the index of the statement to execute,
\* the effects in the session's open transaction, the calls of commit() and
\* rollback() made and the index of the statement that failed (0: none).
\* For a thread that calls transactionStart, _update and transactionCommit
\* or transactionRollback: cmd is the call in progress, log lists the calls
\* made ([cmd, conn, ts]: the statement, the connection it was executed on
\* and the timestamp of the thread's entry at that time, -1 without entry),
\* on is the connection on which the transaction the thread started is
\* open, pending holds the effects in that transaction.
NoTx == [state |-> "none", cmds |-> <<>>, i |-> 0, pending |-> {},
         commits |-> 0, rollbacks |-> 0, failed |-> 0,
         cmd |-> "", on |-> NoConn, log |-> <<>>]

\* a helper call: its name and arguments, where it stands, the calls of
\* __escapeString it has completed, the value of `calls' when it started
\* and whether it failed with a configuration error
NoOp == [h |-> "none", a |-> NoArgs, stage |-> "none", gets |-> 0, calls0 |-> 0,
         config |-> FALSE, text |-> <<>>]

(***************************************************************************)
(* _createTables.  A table dictionary is given by its keys in iteration    *)
(* order, the tables each table references through its ForeignKeys, the    *)
(* order in which a ForeignKeys dictionary yields its targets, the tables  *)
(* described without Fields, the tables whose foreign-key fields are not   *)
(* among their Fields, and the tables whose foreign keys name a field the  *)
(* auxiliary table does not have.  Each statement that __checkTable and    *)
(* _createTables send is one step here; the steps that _query and _update  *)
(* take to obtain the connection are those of the pool above.              *)
(***************************************************************************)
Tables == {"A", "B", "C"}

\* the orderings of a set
Orderings(S) ==
  {s \in [1 .. Cardinality(S) -> S] : \A i, j \in DOMAIN s : i # j => s[i] # s[j]}

\* at most one table of the dictionary is ill-described, or one lacks its
\* Fields and the foreign keys of another name a field it does not have
Defects(S) ==
  {[noFields |-> {}, badKey |-> {}, badForKey |-> {}]}
  \cup {[noFields |-> {x}, badKey |-> {}, badForKey |-> {}] : x \in S}
  \cup {[noFields |-> {}, badKey |-> {x}, badForKey |-> {}] : x \in S}
  \cup {[noFields |-> {}, badKey |-> {}, badForKey |-> {x}] : x \in S}
  \cup {[noFields |-> {p[1]}, badKey |-> {p[2]}, badForKey |-> {}] :
          p \in {q \in S \X S : q[1] # q[2]}}

ExistingSets == {{}, {"A"}, Tables}

CtIdle == [stage |-> "none", dict |-> {}, fks |-> [x \in Tables |-> {}], keys |-> <<>>,
           fkOrder |-> <<>>, defect |-> [noFields |-> {}, badKey |-> {}, badForKey |-> {}],
           force |-> FALSE, existing0 |-> {}, tableList |-> <<>>, creation |-> <<>>,
           aux |-> <<>>, i |-> 0, extracted |-> FALSE, queue |-> <<>>, sent |-> <<>>,
           ret |-> "none", msg |-> "", named |-> <<>>]

Range(s) == {s[i] : i \in DOMAIN s}

RECURSIVE Flatten(_)
Flatten(lists) == IF lists = <<>> THEN <<>> ELSE Head(lists) \o Flatten(Tail(lists))

(***************************************************************************)
(* MySQL.__init__.  A connection key stands for a tuple ( hostName,        *)
(* userName, passwd, port ).  pools is the class attribute                 *)
(* __connectionPools (0: no entry), created lists the keys for which       *)
(* ConnectionPool( *cKey ) has been called, the n-th call making pool n,   *)
(* and object holds, for each MySQL object, the stage of its constructor,  *)
(* its key, its schema and its __connectionPool.                           *)
(***************************************************************************)
CKeys == {"k1", "k2"}
Objects == {"m1", "m2", "m3"}

NoInstances ==
  [pools |-> [k \in CKeys |-> 0],
   created |-> <<>>,
   object |-> [m \in Objects |-> [stage |-> "none", key |-> "", db |-> "", pool |-> 0]]]

(***************************************************************************)
(* Initial states.  InitFresh is the pool as __init__ leaves it.           *)
(* InitAged is the same pool later in the life of the process: earlier     *)
(* threads have opened connections, used schema db1 and gone, so that      *)
(* maxSpares - 1 connections wait in the spare queue, and both threads of  *)
(* the model hold a connection they obtained at time 0.                    *)
(***************************************************************************)
InitCommon ==
  /\ closed = {}
  /\ now = 0
  /\ calls = 0
  /\ alive = [t \in Threads |-> TRUE]
  /\ pc = [t \in Threads |-> "idle"]
  /\ loc = [t \in Threads |-> NoLocals]
  /\ using = [t \in Threads |-> NoConn]
  /\ result = [t \in Threads |-> NoResult]
  /\ tx = [t \in Threads |-> NoTx]
  /\ persisted = [t \in Threads |-> {}]
  /\ op = [t \in Threads |-> NoOp]
  /\ instances = NoInstances

InitFresh ==
  /\ InitCommon
  /\ assigned = [t \in Threads |-> NoEntry]
  /\ spares = <<>>
  /\ opened = 0
  /\ connDb = [c \in Conns |-> ""]
  /\ autocommit = [c \in Conns |-> FALSE]

InitAged ==
  /\ InitCommon
  /\ assigned = [t \in Threads |->
                   [conn |-> IF t = "t1" THEN maxSpares ELSE maxSpares + 1,
                    db |-> "db1", ts |-> 0]]
  /\ spares = [i \in 1 .. (maxSpares - 1) |-> [conn |-> i, db |-> "db1"]]
  /\ opened = InitialConns
  /\ connDb = [c \in Conns |-> IF c <= InitialConns THEN "db1" ELSE ""]
  /\ autocommit = [c \in Conns |-> c <= InitialConns]

\* _createTables is not running and the database holds no table
NoTables == ct = CtIdle /\ existing = {}

Init == (InitFresh \/ InitAged) /\ budget = 0 /\ NoTables

(***************************************************************************)
(* How an operation ends.                                                  *)
(***************************************************************************)
\* return S_ERROR( ... ) / an exception leaving the call
Return(t, kind, diag) ==
  /\ pc' = [pc EXCEPT ![t] = "idle"]
  /\ loc' = [loc EXCEPT ![t] = NoLocals]
  /\ using' = [using EXCEPT ![t] = NoConn]
  /\ result' = [result EXCEPT ![t] = [kind |-> kind, diag |-> diag, conn |-> NoConn]]

\* sleepTime = 5 * ( totalRetries - retriesLeft )
SleepTime(totalRetries, retriesLeft) == 5 * (totalRetries - retriesLeft)

\* `if retriesLeft >= 0: return self.__getWithRetry( dbName, totalRetries,
\* retriesLeft - dec )', else `return S_ERROR( ... )'; slept lists, for each
\* entry of __getWithRetry in this call of get(), its sleepTime and the
\* place the entry was made from
RetryOrFail(t, dec, diag) ==
  IF loc[t].left >= 0
    THEN /\ pc' = [pc EXCEPT ![t] = "inner"]
         /\ loc' = [loc EXCEPT ![t].left = loc[t].left - dec,
                               ![t].slept =
                                  Append(@, [secs |-> SleepTime(loc[t].total,
                                                                loc[t].left - dec),
                                             after |-> pc[t]])]
         /\ UNCHANGED <<using, result>>
    ELSE Return(t, "error", diag)

(***************************************************************************)
(* ConnectionPool.get: clamps retries and runs clean(), which starts by    *)
(* reading the clock and copying the keys of __assigned.                   *)
(***************************************************************************)
GetBody(t, db, r) ==
  /\ alive[t]
  /\ calls < MaxCalls
  /\ calls' = calls + 1
  /\ \E keys \in KeyLists :
       loc' = [loc EXCEPT ![t] = [NoLocals EXCEPT !.db = db,
                                                  !.total = ClampRetries(r),
                                                  !.left = ClampRetries(r),
                                                  !.cnow = now,
                                                  !.clist = keys,
                                                  !.held = assigned[t].conn,
                                                  !.cstart = <<assigned, spares,
                                                               closed>>]]
  /\ pc' = [pc EXCEPT ![t] = "clean"]
  /\ result' = [result EXCEPT ![t] = NoResult]
  /\ UNCHANGED <<assigned, spares, closed, opened, connDb, now, budget, alive, using,
                 autocommit>>

\* a caller that is not inside a helper (_query, _update, _transaction)
\* asks for a connection
Get(t, db, r) ==
  /\ pc[t] = "idle"
  /\ GetBody(t, db, r)
  /\ UNCHANGED layerVars

\* the idle test as it would be with >= in place of >
StaleAtGrace(entry, cnow) == cnow - entry.ts >= graceTime

\* now - data[2] > self.__graceTime
Stale(entry, cnow) == cnow - entry.ts > graceTime

\* one pass of the loop of clean() up to its first __pop, for the thread at
\* the head of the copied key list
CleanNext(t) ==
  /\ pc[t] = "clean"
  /\ IF loc[t].clist = <<>>
       THEN \* the loop is over: __getWithRetry starts
            /\ pc' = [pc EXCEPT ![t] = "inner"]
            /\ loc' = [loc EXCEPT ![t].cnow = 0,
                                  ![t].cstart = <<>>,
                                  ![t].slept = <<[secs |-> SleepTime(loc[t].total,
                                                                     loc[t].left),
                                                  after |-> "clean"]>>]
            /\ UNCHANGED assigned
       ELSE LET thid == Head(loc[t].clist) IN
            IF ~alive[thid]
              THEN \* if not thid.isAlive(): self.__pop( thid )
                   IF assigned[thid] # NoEntry
                     THEN /\ assigned' = [assigned EXCEPT ![thid] = NoEntry]
                          /\ loc' = [loc EXCEPT ![t].pdata = assigned[thid]]
                          /\ pc' = [pc EXCEPT ![t] = "popCheck"]
                     ELSE \* KeyError in __pop, KeyError again in clean: continue
                          /\ loc' = [loc EXCEPT ![t].clist = Tail(loc[t].clist)]
                          /\ UNCHANGED <<assigned, pc>>
              ELSE \* data = self.__assigned[ thid ], then the idle test
                   IF assigned[thid] # NoEntry /\ Stale(assigned[thid], loc[t].cnow)
                     THEN /\ pc' = [pc EXCEPT ![t] = "gracePop"]
                          /\ UNCHANGED <<assigned, loc>>
                     ELSE /\ loc' = [loc EXCEPT ![t].clist = Tail(loc[t].clist)]
                          /\ UNCHANGED <<assigned, pc>>
  /\ UNCHANGED <<spares, closed, opened, connDb, now, budget, alive, calls, using, result>>
  /\ UNCHANGED <<autocommit, layerVars>>

\* self.__pop( thid ) after the idle test: data = self.__assigned.pop( thid )
GracePop(t) ==
  /\ pc[t] = "gracePop"
  /\ LET thid == Head(loc[t].clist) IN
       IF assigned[thid] # NoEntry
         THEN /\ assigned' = [assigned EXCEPT ![thid] = NoEntry]
              /\ loc' = [loc EXCEPT ![t].pdata = assigned[thid]]
              /\ pc' = [pc EXCEPT ![t] = "popCheck"]
         ELSE \* KeyError: pass
              /\ loc' = [loc EXCEPT ![t].clist = Tail(loc[t].clist)]
              /\ pc' = [pc EXCEPT ![t] = "clean"]
              /\ UNCHANGED assigned
  /\ UNCHANGED <<spares, closed, opened, connDb, now, budget, alive, calls, using, result>>
  /\ UNCHANGED <<autocommit, layerVars>>

\* __pop: if len( self.__spares ) < self.__maxSpares
PopCheck(t) ==
  /\ pc[t] = "popCheck"
  /\ pc' = [pc EXCEPT ![t] = IF Len(spares) < maxSpares THEN "popAppend" ELSE "popClose"]
  /\ UNCHANGED <<assigned, spares, closed, opened, connDb, now, budget, alive, calls,
                 loc, using, result>>
  /\ UNCHANGED <<autocommit, layerVars>>

\* __pop: self.__spares.append( ( data[0], data[1] ) )
PopAppend(t) ==
  /\ pc[t] = "popAppend"
  /\ spares' = Append(spares, [conn |-> loc[t].pdata.conn, db |-> loc[t].pdata.db])
  /\ loc' = [loc EXCEPT ![t].clist = Tail(loc[t].clist), ![t].pdata = NoEntry]
  /\ pc' = [pc EXCEPT ![t] = "clean"]
  /\ UNCHANGED <<assigned, closed, opened, connDb, now, budget, alive, calls, using, result>>
  /\ UNCHANGED <<autocommit, layerVars>>

\* __pop: data[ 0 ].close()
PopClose(t) ==
  /\ pc[t] = "popClose"
  /\ closed' = closed \cup {loc[t].pdata.conn}
  /\ loc' = [loc EXCEPT ![t].clist = Tail(loc[t].clist), ![t].pdata = NoEntry]
  /\ pc' = [pc EXCEPT ![t] = "clean"]
  /\ UNCHANGED <<assigned, spares, opened, connDb, now, budget, alive, calls, using, result>>
  /\ UNCHANGED <<autocommit, layerVars>>

(***************************************************************************)
(* __getWithRetry and __innerGet.                                          *)
(***************************************************************************)
\* thid = self.__thid; now = time.time(); if thid in self.__assigned
InnerTest(t) ==
  /\ pc[t] = "inner"
  /\ loc' = [loc EXCEPT ![t].inow = now]
  /\ pc' = [pc EXCEPT ![t] = IF assigned[t] # NoEntry THEN "innerHit" ELSE "innerMiss"]
  /\ UNCHANGED <<assigned, spares, closed, opened, connDb, now, budget, alive, calls,
                 using, result>>
  /\ UNCHANGED <<autocommit, layerVars>>

\* __innerGet as it would be without `data[2] = now'
InnerHitNoRefresh(t) ==
  /\ pc[t] = "innerHit"
  /\ IF assigned[t] # NoEntry
       THEN /\ loc' = [loc EXCEPT ![t].conn = assigned[t].conn,
                                  ![t].last = assigned[t].db,
                                  ![t].inow = 0]
            /\ pc' = [pc EXCEPT ![t] = "ping"]
            /\ UNCHANGED <<assigned, using, result>>
       ELSE /\ Return(t, "raised", FALSE)
            /\ UNCHANGED assigned
  /\ UNCHANGED <<spares, closed, opened, connDb, now, budget, alive, calls>>
  /\ UNCHANGED <<autocommit, layerVars>>

\* data = self.__assigned[ thid ]; data[2] = now; return data[0], data[1], thid
\* The entry can be gone since the membership test: the KeyError is not a
\* MySQLError and leaves get().
InnerHit(t) ==
  /\ pc[t] = "innerHit"
  /\ IF assigned[t] # NoEntry
       THEN /\ assigned' = [assigned EXCEPT ![t].ts = loc[t].inow]
            /\ loc' = [loc EXCEPT ![t].conn = assigned[t].conn,
                                  ![t].last = assigned[t].db,
                                  ![t].inow = 0]
            /\ pc' = [pc EXCEPT ![t] = "ping"]
            /\ UNCHANGED <<using, result>>
       ELSE /\ Return(t, "raised", FALSE)
            /\ UNCHANGED assigned
  /\ UNCHANGED <<spares, closed, opened, connDb, now, budget, alive, calls>>
  /\ UNCHANGED <<autocommit, layerVars>>

\* conn, dbName = self.__spares.pop(); self.__assigned[ thid ] = [ conn, dbName, now ]
TakeSpare(t) ==
  /\ pc[t] = "innerMiss"
  /\ spares # <<>>
  /\ LET top == spares[Len(spares)] IN
       /\ spares' = SubSeq(spares, 1, Len(spares) - 1)
       /\ assigned' = [assigned EXCEPT ![t] = [conn |-> top.conn, db |-> top.db,
                                               ts |-> loc[t].inow]]
       /\ loc' = [loc EXCEPT ![t].conn = top.conn, ![t].last = top.db, ![t].inow = 0]
  /\ pc' = [pc EXCEPT ![t] = "ping"]
  /\ UNCHANGED <<closed, opened, connDb, now, budget, alive, calls, using, result>>
  /\ UNCHANGED <<autocommit, layerVars>>

\* except IndexError: conn = self.__newConn(); dbName = ""
\* (__newConn: MySQLdb.connect(), then "SET AUTOCOMMIT=1" on the connection)
\* self.__assigned[ thid ] = [ conn, dbName, now ]
NewConn(t) ==
  /\ pc[t] = "innerMiss"
  /\ spares = <<>>
  /\ opened + 1 \in Conns
  /\ opened' = opened + 1
  /\ assigned' = [assigned EXCEPT ![t] = [conn |-> opened + 1, db |-> "",
                                          ts |-> loc[t].inow]]
  /\ loc' = [loc EXCEPT ![t].conn = opened + 1, ![t].last = "", ![t].inow = 0]
  /\ pc' = [pc EXCEPT ![t] = "ping"]
  /\ UNCHANGED <<spares, closed, connDb, now, budget, alive, calls, using, result>>
  /\ autocommit' = [autocommit EXCEPT ![opened + 1] = TRUE]
  /\ UNCHANGED layerVars

\* MySQLdb.connect() raises, or connect() succeeds and the SET AUTOCOMMIT=1
\* of __newConn raises: `except MySQLdb.MySQLError' in __getWithRetry
NewConnFails(t, connected) ==
  /\ pc[t] = "innerMiss"
  /\ spares = <<>>
  /\ budget > 0
  /\ budget' = budget - 1
  /\ IF connected
       THEN opened + 1 \in Conns /\ opened' = opened + 1
       ELSE opened' = opened
  /\ RetryOrFail(t, 1, TRUE)
  /\ UNCHANGED <<assigned, spares, closed, connDb, now, alive, calls>>
  /\ UNCHANGED <<autocommit, layerVars>>

\* if not self.__ping( conn ): the assignment is dropped and __getWithRetry
\* is called again with the same retriesLeft
PingFails(t) ==
  /\ pc[t] = "ping"
  /\ \/ loc[t].conn \in closed /\ budget' = budget
     \/ loc[t].conn \notin closed /\ budget > 0 /\ budget' = budget - 1
  /\ assigned' = [assigned EXCEPT ![t] = NoEntry]
  /\ RetryOrFail(t, 0, FALSE)
  /\ UNCHANGED <<spares, closed, opened, connDb, now, alive, calls>>
  /\ UNCHANGED <<autocommit, layerVars>>

\* S_OK( conn ): the caller starts to operate on the connection
ReturnConn(t, newAssigned, newConnDb) ==
  /\ pc' = [pc EXCEPT ![t] = "using"]
  /\ using' = [using EXCEPT ![t] = loc[t].conn]
  /\ loc' = [loc EXCEPT ![t].gotDb = newConnDb[loc[t].conn],
                        ![t].gotMark = IF newAssigned[t].conn = loc[t].conn
                                         THEN newAssigned[t].db ELSE ""]
  /\ UNCHANGED result

\* ping succeeded and lastName == dbName
PingOkSameDb(t) ==
  /\ pc[t] = "ping"
  /\ loc[t].conn \notin closed
  /\ loc[t].last = loc[t].db
  /\ ReturnConn(t, assigned, connDb)
  /\ UNCHANGED <<assigned, spares, closed, opened, connDb, now, budget, alive, calls>>
  /\ UNCHANGED <<autocommit, layerVars>>

\* ping succeeded and lastName != dbName
PingOkOtherDb(t) ==
  /\ pc[t] = "ping"
  /\ loc[t].conn \notin closed
  /\ loc[t].last # loc[t].db
  /\ pc' = [pc EXCEPT ![t] = "select"]
  /\ UNCHANGED <<assigned, spares, closed, opened, connDb, now, budget, alive, calls,
                 loc, using, result>>
  /\ UNCHANGED <<autocommit, layerVars>>

\* conn.select_db( dbName ) raises
SelectFails(t) ==
  /\ pc[t] = "select"
  /\ \/ loc[t].conn \in closed /\ budget' = budget
     \/ loc[t].conn \notin closed /\ budget > 0 /\ budget' = budget - 1
  /\ RetryOrFail(t, 1, TRUE)
  /\ UNCHANGED <<assigned, spares, closed, opened, connDb, now, alive, calls>>
  /\ UNCHANGED <<autocommit, layerVars>>

\* conn.select_db( dbName ); self.__assigned[ thid ][1] = dbName
SelectOk(t) ==
  /\ pc[t] = "select"
  /\ loc[t].conn \notin closed
  /\ connDb' = [connDb EXCEPT ![loc[t].conn] = loc[t].db]
  /\ IF assigned[t] # NoEntry
       THEN /\ assigned' = [assigned EXCEPT ![t].db = loc[t].db]
            /\ ReturnConn(t, assigned', connDb')
       ELSE \* except KeyError
            /\ RetryOrFail(t, 1, FALSE)
            /\ UNCHANGED assigned
  /\ UNCHANGED <<spares, closed, opened, now, budget, alive, calls>>
  /\ UNCHANGED <<autocommit, layerVars>>

(***************************************************************************)
(* The caller of get() (_query, _update) works on the connection it got:   *)
(* cursor(), execute(), fetchall(), cursor.close().                        *)
(***************************************************************************)
ExecuteOk(t) ==
  /\ pc[t] = "using"
  /\ op[t].stage # "escape"
  /\ using[t] \notin closed
  /\ Return(t, "ok", FALSE)
  /\ UNCHANGED <<assigned, spares, closed, opened, connDb, now, budget, alive, calls>>
  /\ UNCHANGED <<autocommit, layerVars>>

\* except Exception, x: retDict = self._except( '_query', x, 'Execution failed.' )
ExecuteFails(t) ==
  /\ pc[t] = "using"
  /\ op[t].stage # "escape"
  /\ \/ using[t] \in closed /\ budget' = budget
     \/ using[t] \notin closed /\ budget > 0 /\ budget' = budget - 1
  /\ Return(t, "error", TRUE)
  /\ UNCHANGED <<assigned, spares, closed, opened, connDb, now, alive, calls>>
  /\ UNCHANGED <<autocommit, layerVars>>

(***************************************************************************)
(* _transaction( cmdList ): the statements of the list are executed in     *)
(* order on the connection __getConnection returned, then commit() is      *)
(* called.  The server adds the effect of a statement that succeeds to the *)
(* session's open transaction, or makes it durable at once when the        *)
(* session is in autocommit mode; commit() makes the open transaction      *)
(* durable and rollback() discards it.                                     *)
(***************************************************************************)
Statements == {"good", "bad"}
CmdLists == UNION {[1 .. n -> Statements] : n \in 0 .. MaxCmds}

\* the methods of the logger (gLogger.getSubLogger) that this module uses;
\* the logger has no attribute `execption'
LoggerMethods == {"debug", "verbose", "info", "warn", "error"}

\* the caller of get() is _query, _update or _transaction, not a helper
Direct(t) == op[t].stage \notin {"escape", "query"}

\* cmdRet = []; cursor = connection.cursor()
TxCursor(t, cmds) ==
  /\ pc[t] = "using"
  /\ Direct(t)
  /\ tx' = [tx EXCEPT ![t] = [NoTx EXCEPT !.state = "run", !.cmds = cmds, !.i = 1]]
  /\ persisted' = [persisted EXCEPT ![t] = {}]
  /\ pc' = [pc EXCEPT ![t] = "txLoop"]
  /\ UNCHANGED <<assigned, spares, closed, opened, connDb, now, budget, alive, calls,
                 loc, using, result, autocommit, op, ct, existing, instances>>

\* cmdRet.append( ( cmd, cursor.execute( cmd ) ) ), the statement succeeds
TxExecuteOk(t) ==
  /\ pc[t] = "txLoop"
  /\ tx[t].i <= Len(tx[t].cmds)
  /\ tx[t].cmds[tx[t].i] = "good"
  /\ using[t] \notin closed
  /\ IF autocommit[using[t]]
       THEN /\ persisted' = [persisted EXCEPT ![t] = persisted[t] \cup {tx[t].i}]
            /\ tx' = [tx EXCEPT ![t].i = tx[t].i + 1]
       ELSE /\ tx' = [tx EXCEPT ![t].i = tx[t].i + 1,
                                ![t].pending = tx[t].pending \cup {tx[t].i}]
            /\ UNCHANGED persisted
  /\ UNCHANGED <<assigned, spares, closed, opened, connDb, now, budget, alive, calls,
                 pc, loc, using, result, autocommit, op, ct, existing, instances>>

\* cursor.execute( cmd ) raises: control passes to the except clause
TxExecuteFails(t) ==
  /\ pc[t] = "txLoop"
  /\ tx[t].i <= Len(tx[t].cmds)
  /\ tx[t].cmds[tx[t].i] = "bad" \/ using[t] \in closed
  /\ tx' = [tx EXCEPT ![t].failed = tx[t].i]
  /\ pc' = [pc EXCEPT ![t] = "txExcept"]
  /\ UNCHANGED <<assigned, spares, closed, opened, connDb, now, budget, alive, calls,
                 loc, using, result, autocommit, persisted, op, ct, existing, instances>>

\* connection.commit(); cursor.close(); return S_OK( cmdRet )
TxCommit(t) ==
  /\ pc[t] = "txLoop"
  /\ tx[t].i > Len(tx[t].cmds)
  /\ using[t] \notin closed
  /\ persisted' = [persisted EXCEPT ![t] = persisted[t] \cup tx[t].pending]
  /\ tx' = [tx EXCEPT ![t].pending = {}, ![t].commits = tx[t].commits + 1,
                      ![t].state = "done"]
  /\ Return(t, "ok", FALSE)
  /\ UNCHANGED <<assigned, spares, closed, opened, connDb, now, budget, alive, calls,
                 autocommit, op, ct, existing, instances>>

\* except Exception, error: self.logger.execption( error );
\* connection.rollback(); return S_ERROR( DErrno.EMYSQL, error )
TxExcept(t) ==
  /\ pc[t] = "txExcept"
  /\ IF "execption" \in LoggerMethods
       THEN /\ tx' = [tx EXCEPT ![t].pending = {}, ![t].rollbacks = tx[t].rollbacks + 1,
                                ![t].state = "done"]
            /\ Return(t, "error", TRUE)
       ELSE \* AttributeError leaves the except clause and _transaction
            /\ tx' = [tx EXCEPT ![t].state = "done"]
            /\ Return(t, "raised", FALSE)
  /\ UNCHANGED <<assigned, spares, closed, opened, connDb, now, budget, alive, calls,
                 autocommit, persisted, op, ct, existing, instances>>

(***************************************************************************)
(* transactionStart, transactionCommit and transactionRollback of the pool *)
(* (each result = self.get( dbName ), then __execute( conn, cmd )) and the *)
(* _update calls a thread makes in between (__getConnection, then          *)
(* cursor.execute( cmd )).  On the server START TRANSACTION opens a        *)
(* transaction on the connection, a statement executed on a connection     *)
(* with an open transaction adds its effect to it and is durable at once   *)
(* on a connection in autocommit mode otherwise, COMMIT and commit() make  *)
(* the effects of the connection's open transaction durable and end it,    *)
(* ROLLBACK discards them and ends it.                                     *)
(***************************************************************************)
SessionCall(t, cmd) ==
  /\ pc[t] = "idle"
  /\ tx[t].cmd = ""
  /\ IF cmd = "START"
       THEN tx[t].log = <<>>
       ELSE /\ tx[t].log # <<>>
            /\ tx[t].log[Len(tx[t].log)].cmd \notin {"COMMIT", "ROLLBACK"}
  /\ GetBody(t, "db1", MAXCONNECTRETRY)
  /\ tx' = [tx EXCEPT ![t].cmd = cmd]
  /\ UNCHANGED <<persisted, op, ct, existing, instances>>

\* __execute: cursor = conn.cursor(); res = cursor.execute( cmd );
\* conn.commit(); cursor.close(); return S_OK( res )
\* _update: cursor = connection.cursor(); res = cursor.execute( cmd )
SessionExecute(t) ==
  /\ pc[t] = "using"
  /\ tx[t].cmd # ""
  /\ using[t] \notin closed
  /\ LET c == using[t]
         cmd == tx[t].cmd
         n == Len(tx[t].log) + 1
         entry == [cmd |-> cmd, conn |-> c,
                   ts |-> IF assigned[t].conn = c THEN assigned[t].ts ELSE -1]
         \* after cursor.execute( cmd )
         open == IF cmd = "START" THEN c
                 ELSE IF cmd \in {"COMMIT", "ROLLBACK"} /\ tx[t].on = c THEN NoConn
                 ELSE tx[t].on
         kept == IF cmd = "UPDATE" /\ (tx[t].on = c \/ ~autocommit[c])
                   THEN tx[t].pending \cup {n}
                 ELSE IF cmd \in {"COMMIT", "ROLLBACK"} /\ tx[t].on = c THEN {}
                 ELSE tx[t].pending
         durable == IF cmd = "UPDATE" /\ tx[t].on # c /\ autocommit[c]
                      THEN persisted[t] \cup {n}
                    ELSE IF cmd = "COMMIT" /\ tx[t].on = c
                      THEN persisted[t] \cup tx[t].pending
                    ELSE persisted[t]
         \* conn.commit() in __execute
         commits == cmd # "UPDATE" /\ open = c
     IN  /\ tx' = [tx EXCEPT ![t].cmd = "",
                             ![t].log = Append(tx[t].log, entry),
                             ![t].on = IF commits THEN NoConn ELSE open,
                             ![t].pending = IF commits THEN {} ELSE kept]
         /\ persisted' = [persisted EXCEPT ![t] = IF commits THEN durable \cup kept
                                                             ELSE durable]
  /\ Return(t, "ok", FALSE)
  /\ UNCHANGED <<assigned, spares, closed, opened, connDb, now, budget, alive, calls,
                 autocommit, op, ct, existing, instances>>

(***************************************************************************)
(* A helper call.  Plan tells how many values the call escapes before it   *)
(* ends or sends its statement; every __escapeString starts with           *)
(* __getConnection, that is get( self.__dbName ), and so does _query and   *)
(* _update.                                                                *)
(***************************************************************************)
\* self.__dbName
SchemaName == "db1"

Name(tok) == PyStr(<<tok>>)
Pair(name, value) == [name |-> name, value |-> value]

TableArgs == {Name("t"), PyInt("5"), PyStr(<<BackTick, "t", BackTick, BackTick, "x">>)}
CondDictArgs ==
  {PyNone,
   PyDict(<<>>),
   PyDict(<<Pair(Name("a"), Name("x"))>>),
   PyDict(<<Pair(Name("a"), Name("x")), Pair(Name("b"), PyList(<<Name("x"), Name("y")>>))>>),
   PyDict(<<Pair(Name("a"), PyStr(<<"TIMESTAMPDIFF(", "x", ")">>))>>),
   PyDict(<<Pair(PyInt("5"), Name("x"))>>),
   PyDict(<<Pair(Name("a"), PyList(<<PyInt("1"), PyInt("2"), PyInt("3")>>))>>),
   PyDict(<<Pair(Name("a"), PyInt("1")), Pair(Name("b"), PyInt("2"))>>)}
OrderArgs ==
  {PyNone,
   Name("a"),
   PyStr(<<"a", ":", "asc">>),
   PyStr(<<"a", ":", "up">>),
   PyStr(<<BackTick, "a", ":", "Desc", ":", "x">>),
   PyInt("5"),
   PyList(<<PyStr(<<"a", ":", "Desc">>), Name("b")>>)}
LimitArgs == {0, 5}
TimeStampArgs == {PyNone, Name("ts"), PyInt("5")}
TimeArgs == {PyNone, Name("x")}
RangeArgs == {PyNone, PyDict(<<Pair(Name("a"), PyInt("1"))>>)}
FieldArgs == {PyNone, PyList(<<Name("a")>>), PyList(<<Name("a"), Name("b")>>)}
ValueArgs == {PyNone, PyList(<<Name("x")>>), PyList(<<Name("x"), PyBool(TRUE)>>),
              PyList(<<PyStr(<<DoubleQuote>>), PyInt("5")>>)}

\* calls that vary the filter, the ordering and the limit; the time window
\* and the ranges; the fields and the values
HelperArgs ==
  {[NoArgs EXCEPT !.table = tb, !.condDict = cd, !.order = o, !.limit = l, !.offset = l] :
     tb \in TableArgs, cd \in CondDictArgs, o \in OrderArgs, l \in LimitArgs}
  \cup
  {[NoArgs EXCEPT !.table = Name("t"), !.timeStamp = ts, !.newer = n, !.older = o,
                  !.greater = g, !.smaller = s] :
     ts \in TimeStampArgs, n \in TimeArgs, o \in TimeArgs, g \in RangeArgs, s \in RangeArgs}
  \cup
  {[NoArgs EXCEPT !.table = Name("t"), !.attrs = f, !.values = v, !.condDict = cd] :
     f \in FieldArgs, v \in ValueArgs, cd \in {PyNone, PyDict(<<Pair(Name("a"), Name("x"))>>)}}

HelperCall(t, h, a) ==
  /\ pc[t] = "idle"
  /\ alive[t]
  /\ op[t].stage = "none"
  /\ op' = [op EXCEPT ![t] = [NoOp EXCEPT !.h = h, !.a = a, !.stage = "run",
                                          !.calls0 = calls]]
  /\ pc' = [pc EXCEPT ![t] = "helper"]
  /\ result' = [result EXCEPT ![t] = NoResult]
  /\ UNCHANGED <<assigned, spares, closed, opened, connDb, now, budget, alive, calls,
                 loc, using, autocommit, tx, persisted, ct, existing, instances>>

\* retDict = self.__getConnection() in __escapeString
HelperEscape(t) ==
  /\ pc[t] = "helper"
  /\ op[t].gets < Plan(op[t].h, op[t].a).esc
  /\ GetBody(t, SchemaName, MAXCONNECTRETRY)
  /\ op' = [op EXCEPT ![t].stage = "escape"]
  /\ UNCHANGED <<tx, persisted, ct, existing, instances>>

\* __escapeString has its connection and returns the escaped text or S_ERROR
EscapeDone(t) ==
  /\ pc[t] = "using"
  /\ op[t].stage = "escape"
  /\ pc' = [pc EXCEPT ![t] = "helper"]
  /\ loc' = [loc EXCEPT ![t] = NoLocals]
  /\ using' = [using EXCEPT ![t] = NoConn]
  /\ op' = [op EXCEPT ![t].stage = "run", ![t].gets = op[t].gets + 1]
  /\ UNCHANGED <<assigned, spares, closed, opened, connDb, now, budget, alive, calls,
                 result, autocommit, tx, persisted, ct, existing, instances>>

\* the call ends without a statement: S_ERROR, a value or an exception
HelperReturn(t) ==
  /\ pc[t] = "helper"
  /\ LET Ends(plan) ==
           /\ op[t].gets = plan.esc
           /\ plan.outcome # "sql"
           /\ Return(t, IF plan.outcome = "value" THEN "ok" ELSE plan.outcome, FALSE)
           /\ op' = [op EXCEPT ![t].stage = "done",
                               ![t].config = plan.config /\ plan.outcome # "value",
                               ![t].text = plan.text]
     IN  Ends(Plan(op[t].h, op[t].a))
  /\ UNCHANGED <<assigned, spares, closed, opened, connDb, now, budget, alive, calls,
                 autocommit, tx, persisted, ct, existing, instances>>

\* return self._query( ... ) / self._update( ... ): retDict = self.__getConnection()
HelperStatement(t) ==
  /\ pc[t] = "helper"
  /\ LET Runs(plan) == op[t].gets = plan.esc /\ plan.outcome = "sql"
     IN  Runs(Plan(op[t].h, op[t].a))
  /\ GetBody(t, SchemaName, MAXCONNECTRETRY)
  /\ op' = [op EXCEPT ![t].stage = "query", ![t].text = Plan(op[t].h, op[t].a).text]
  /\ UNCHANGED <<tx, persisted, ct, existing, instances>>

\* the statement is executed and its result returned
HelperStatementDone(t) ==
  /\ pc[t] = "using"
  /\ op[t].stage = "query"
  /\ using[t] \notin closed
  /\ Return(t, "ok", FALSE)
  /\ op' = [op EXCEPT ![t].stage = "done"]
  /\ UNCHANGED <<assigned, spares, closed, opened, connDb, now, budget, alive, calls,
                 autocommit, tx, persisted, ct, existing, instances>>

\* _createTables( tableDict, force ) is called
CreateTables(S, fks, keys, fkOrder, defect, force) ==
  /\ ct.stage = "none"
  /\ ct' = [CtIdle EXCEPT !.stage = "validate", !.dict = S,
                          !.fks = [x \in Tables |-> IF x \in S THEN fks[x] ELSE {}],
                          !.keys = keys, !.fkOrder = fkOrder, !.defect = defect,
                          !.force = force, !.existing0 = existing]
  /\ UNCHANGED <<assigned, spares, closed, opened, connDb, now, budget, alive, calls,
                 pc, loc, using, result, autocommit, tx, persisted, op, existing, instances>>

\* the consistency checks of the request
CtValidate ==
  /\ ct.stage = "validate"
  /\ ct' = IF ct.keys = <<>>
             THEN [ct EXCEPT !.stage = "done", !.ret = "ok"]
           ELSE IF ct.defect.noFields # {}
             THEN [ct EXCEPT !.stage = "done", !.ret = "error",
                             !.msg = "Missing Fields key"]
           ELSE [ct EXCEPT !.stage = "extract", !.tableList = ct.keys,
                           !.creation = <<<<>>>>, !.aux = <<>>, !.i = 0,
                           !.extracted = TRUE]
  /\ UNCHANGED <<assigned, spares, closed, opened, connDb, now, budget, alive, calls,
                 pc, loc, using, result, autocommit, tx, persisted, op, existing, instances>>

\* the scan as it would be if it did not look at what has been extracted
FkScanNoWait(table, fkseq, aux, c) == "extract"

\* for key, auxTable in thisKeys.iteritems(): "wait" if a target is not yet
\* among the extracted tables of earlier rounds, an error for a field that
\* is not defined, "extract" at the end of the loop
RECURSIVE FkScan(_, _, _, _)
FkScan(table, fkseq, aux, c) ==
  IF fkseq = <<>> THEN "extract"
  ELSE IF Head(fkseq) \notin Range(aux) THEN "wait"
  ELSE IF table \in c.defect.badKey THEN "errorKey"
  ELSE IF table \in c.defect.badForKey THEN "errorForKey"
  ELSE FkScan(table, Tail(fkseq), aux, c)

\* the error as it would be if it named the table being scanned in both cases
ForeignKeyErrorOwnTable(r, table, forTable) ==
  [msg |-> IF r = "errorKey" THEN "ForeignKey not defined in Primary table"
                             ELSE "ForeignKey not defined in Auxiliary table",
   named |-> <<table>>]

\* 'ForeignKey %s -> %s not defined in Primary table %s.' % ( key, forKey, table )
\* 'ForeignKey %s -> %s not defined in Auxiliary table %s.' % ( key, forKey, forTable )
ForeignKeyError(r, table, forTable) ==
  IF r = "errorKey"
    THEN [msg |-> "ForeignKey not defined in Primary table", named |-> <<table>>]
    ELSE [msg |-> "ForeignKey not defined in Auxiliary table", named |-> <<forTable>>]

\* for table in list( tableList ): acc is [tableList, batch, extracted, err,
\* msg, named]; the scan reports a field that is not defined at the key it
\* has reached, which is the first of the table's keys
RECURSIVE RoundLoop(_, _, _, _)
RoundLoop(todo, acc, aux, c) ==
  IF todo = <<>> \/ acc.err THEN acc
  ELSE LET table == Head(todo)
           fkseq == SelectSeq(c.fkOrder, LAMBDA x : x \in c.fks[table])
           r == FkScan(table, fkseq, aux, c)
       IN  RoundLoop(Tail(todo),
                     CASE r = "extract" ->
                            [acc EXCEPT !.tableList = SelectSeq(acc.tableList,
                                                                LAMBDA x : x # table),
                                        !.batch = Append(acc.batch, table),
                                        !.extracted = TRUE]
                       [] r = "wait" -> acc
                       [] OTHER ->
                            [acc EXCEPT !.err = TRUE,
                                        !.msg = ForeignKeyError(r, table, Head(fkseq)).msg,
                                        !.named = ForeignKeyError(r, table,
                                                                  Head(fkseq)).named],
                     aux, c)

\* one pass of `while tableList and extracted'
CtRound ==
  /\ ct.stage = "extract"
  /\ ct.tableList # <<>> /\ ct.extracted
  /\ LET aux == ct.aux \o ct.creation[ct.i + 1]
         r == RoundLoop(ct.tableList,
                        [tableList |-> ct.tableList, batch |-> <<>>, extracted |-> FALSE,
                         err |-> FALSE, msg |-> "", named |-> <<>>],
                        aux, ct)
     IN  ct' = IF r.err
                 THEN [ct EXCEPT !.stage = "done", !.ret = "error",
                                 !.msg = r.msg, !.named = r.named]
                 ELSE [ct EXCEPT !.aux = aux, !.i = ct.i + 1,
                                 !.creation = Append(ct.creation, r.batch),
                                 !.tableList = r.tableList, !.extracted = r.extracted]
  /\ UNCHANGED <<assigned, spares, closed, opened, connDb, now, budget, alive, calls,
                 pc, loc, using, result, autocommit, tx, persisted, op, existing, instances>>

\* the message as it would be if it named every table of the request
RecursiveKeysAll(c) == c.keys

\* ', '.join( tableList ): the tables named by 'Recursive Foreign Keys in %s'
RecursiveKeys(c) == c.tableList

\* the loop is over: 'Recursive Foreign Keys' if tables are left, else the
\* creation starts
CtExtracted ==
  /\ ct.stage = "extract"
  /\ ~(ct.tableList # <<>> /\ ct.extracted)
  /\ ct' = IF ct.tableList # <<>>
             THEN [ct EXCEPT !.stage = "done", !.ret = "error",
                             !.msg = "Recursive Foreign Keys",
                             !.named = RecursiveKeys(ct)]
             ELSE [ct EXCEPT !.stage = "check", !.queue = Flatten(ct.creation)]
  /\ UNCHANGED <<assigned, spares, closed, opened, connDb, now, budget, alive, calls,
                 pc, loc, using, result, autocommit, tx, persisted, op, existing, instances>>

\* __checkTable as it would be if it dropped whatever exists
CheckTableAlwaysDrop(table, exists, force) ==
  IF exists
    THEN [ok |-> TRUE, sent |-> <<[kind |-> "show", table |-> table],
                                  [kind |-> "drop", table |-> table]>>]
    ELSE [ok |-> TRUE, sent |-> <<[kind |-> "show", table |-> table]>>]

\* __checkTable: SHOW TABLES, then an error or DROP TABLE if the table
\* exists; the result is [ok, sent]
CheckTable(table, exists, force) ==
  IF exists
    THEN IF ~force
           THEN [ok |-> FALSE, sent |-> <<[kind |-> "show", table |-> table]>>]
           ELSE [ok |-> TRUE, sent |-> <<[kind |-> "show", table |-> table],
                                         [kind |-> "drop", table |-> table]>>]
    ELSE [ok |-> TRUE, sent |-> <<[kind |-> "show", table |-> table]>>]

\* retDict = self.__checkTable( table, force = force )
CtCheckTable ==
  /\ ct.stage = "check"
  /\ ct.queue # <<>>
  /\ LET table == Head(ct.queue)
         Checked(r) ==
           /\ ct' = IF r.ok
                      THEN [ct EXCEPT !.stage = "create", !.sent = ct.sent \o r.sent]
                      ELSE [ct EXCEPT !.stage = "done", !.ret = "error",
                                      !.msg = "The requested table already exist",
                                      !.sent = ct.sent \o r.sent]
           /\ existing' = IF \E i \in DOMAIN r.sent : r.sent[i].kind = "drop"
                            THEN existing \ {table} ELSE existing
     IN  Checked(CheckTable(table, table \in existing, ct.force))
  /\ UNCHANGED <<assigned, spares, closed, opened, connDb, now, budget, alive, calls,
                 pc, loc, using, result, autocommit, tx, persisted, op, instances>>

\* retDict = self._update( 'CREATE TABLE ...' )
CtCreate ==
  /\ ct.stage = "create"
  /\ LET table == Head(ct.queue)
     IN  /\ ct' = [ct EXCEPT !.stage = "check", !.queue = Tail(ct.queue),
                             !.sent = Append(ct.sent, [kind |-> "create", table |-> table])]
         /\ existing' = existing \cup {table}
  /\ UNCHANGED <<assigned, spares, closed, opened, connDb, now, budget, alive, calls,
                 pc, loc, using, result, autocommit, tx, persisted, op, instances>>

\* return S_OK()
CtReturn ==
  /\ ct.stage = "check"
  /\ ct.queue = <<>>
  /\ ct' = [ct EXCEPT !.stage = "done", !.ret = "ok"]
  /\ UNCHANGED <<assigned, spares, closed, opened, connDb, now, budget, alive, calls,
                 pc, loc, using, result, autocommit, tx, persisted, op, existing, instances>>

(***************************************************************************)
(* _createViews.  The locals of the call are kept in ct: keys is the order *)
(* of viewsDict.iteritems(), queue the views the loop has still to visit,  *)
(* sent the statements handed to _query.                                   *)
(***************************************************************************)
Views == {"V1", "V2", "V3"}

\* _createViews( viewsDict, force ) is called: the loop is under `if force:'
CreateViews(keys, force) ==
  /\ ct.stage = "none"
  /\ ct' = [CtIdle EXCEPT !.stage = "view", !.dict = Range(keys), !.keys = keys,
                          !.force = force, !.existing0 = existing,
                          !.queue = IF force THEN keys ELSE <<>>]
  /\ UNCHANGED <<assigned, spares, closed, opened, connDb, now, budget, alive, calls,
                 pc, loc, using, result, autocommit, tx, persisted, op, existing, instances>>

\* createView = self._query( viewQuery ); if not createView["OK"]: return createView
CvQuery(ok) ==
  /\ ct.stage = "view"
  /\ ct.queue # <<>>
  /\ LET viewName == Head(ct.queue)
         sent == Append(ct.sent, [kind |-> "view", table |-> viewName])
     IN  ct' = IF ok
                 THEN [ct EXCEPT !.queue = Tail(ct.queue), !.sent = sent]
                 ELSE [ct EXCEPT !.stage = "done", !.ret = "error",
                                 !.msg = "Execution failed.", !.named = <<viewName>>,
                                 !.sent = sent]
  /\ UNCHANGED <<assigned, spares, closed, opened, connDb, now, budget, alive, calls,
                 pc, loc, using, result, autocommit, tx, persisted, op, existing, instances>>

\* return S_OK()
CvReturn ==
  /\ ct.stage = "view"
  /\ ct.queue = <<>>
  /\ ct' = [ct EXCEPT !.stage = "done", !.ret = "ok"]
  /\ UNCHANGED <<assigned, spares, closed, opened, connDb, now, budget, alive, calls,
                 pc, loc, using, result, autocommit, tx, persisted, op, existing, instances>>

(***************************************************************************)
(* MySQL.__init__, run by any number of threads; nothing serialises the    *)
(* test of __connectionPools, the creation of the pool and the lookup.     *)
(***************************************************************************)
\* cKey = ( ... ); if cKey not in MySQL.__connectionPools:
InitTest(m, key, db) ==
  /\ instances.object[m].stage = "none"
  /\ instances' = [instances EXCEPT !.object[m] =
                     [stage |-> IF instances.pools[key] = 0 THEN "create" ELSE "lookup",
                      key |-> key, db |-> db, pool |-> 0]]
  /\ UNCHANGED <<assigned, spares, closed, opened, connDb, now, budget, alive, calls,
                 pc, loc, using, result, autocommit, tx, persisted, op, ct, existing>>

\* MySQL.__connectionPools[ cKey ] = MySQL.ConnectionPool( *cKey )
InitCreate(m) ==
  /\ instances.object[m].stage = "create"
  /\ instances' = [instances EXCEPT !.created = Append(@, instances.object[m].key),
                                    !.pools[instances.object[m].key] =
                                       Len(instances.created) + 1,
                                    !.object[m].stage = "lookup"]
  /\ UNCHANGED <<assigned, spares, closed, opened, connDb, now, budget, alive, calls,
                 pc, loc, using, result, autocommit, tx, persisted, op, ct, existing>>

\* self.__connectionPool = MySQL.__connectionPools[ cKey ]
InitLookup(m) ==
  /\ instances.object[m].stage = "lookup"
  /\ instances' = [instances EXCEPT !.object[m].pool =
                                       instances.pools[instances.object[m].key],
                                    !.object[m].stage = "done"]
  /\ UNCHANGED <<assigned, spares, closed, opened, connDb, now, budget, alive, calls,
                 pc, loc, using, result, autocommit, tx, persisted, op, ct, existing>>

(***************************************************************************)
(* The environment: time passes, a thread that is not inside a call ends.  *)
(***************************************************************************)
Tick(d) ==
  /\ now + d <= MaxNow
  /\ now' = now + d
  /\ UNCHANGED <<assigned, spares, closed, opened, connDb, budget, alive, calls,
                 pc, loc, using, result>>
  /\ UNCHANGED <<autocommit, layerVars>>

Die(t) ==
  /\ pc[t] = "idle"
  /\ alive[t]
  /\ alive' = [alive EXCEPT ![t] = FALSE]
  /\ UNCHANGED <<assigned, spares, closed, opened, connDb, now, budget, calls,
                 pc, loc, using, result>>
  /\ UNCHANGED <<autocommit, layerVars>>

(***************************************************************************)
(* Spec: both threads call get() concurrently while time passes and        *)
(* threads end.  The driver reports faults on closed connections only.     *)
(***************************************************************************)
Next ==
  \/ \E t \in Threads, db \in DbNames, r \in RetryInputs : Get(t, db, r)
  \/ \E t \in Threads : CleanNext(t)
  \/ \E t \in Threads : GracePop(t)
  \/ \E t \in Threads : PopCheck(t)
  \/ \E t \in Threads : PopAppend(t)
  \/ \E t \in Threads : PopClose(t)
  \/ \E t \in Threads : InnerTest(t)
  \/ \E t \in Threads : InnerHit(t)
  \/ \E t \in Threads : TakeSpare(t)
  \/ \E t \in Threads : NewConn(t)
  \/ \E t \in Threads : PingFails(t)
  \/ \E t \in Threads : PingOkSameDb(t)
  \/ \E t \in Threads : PingOkOtherDb(t)
  \/ \E t \in Threads : SelectFails(t)
  \/ \E t \in Threads : SelectOk(t)
  \/ \E t \in Threads : ExecuteOk(t)
  \/ \E t \in Threads : ExecuteFails(t)
  \/ \E d \in TimeSteps : Tick(d)
  \/ \E t \in Threads : Die(t)

Spec == Init /\ [][Next]_vars

(***************************************************************************)
(* SpecSerial: the calls of get() follow one another: a thread starts one  *)
(* when no other thread is inside a call, and time passes and threads end  *)
(* between calls.  No fault is reported.                                   *)
(***************************************************************************)
NextSerial ==
  LET Alone(t) == \A u \in Threads \ {t} : pc[u] = "idle"
      Quiet == \A u \in Threads : pc[u] = "idle"
  IN  \/ \E t \in Threads, db \in DbNames, r \in RetryInputs : Alone(t) /\ Get(t, db, r)
      \/ \E t \in Threads : CleanNext(t)
      \/ \E t \in Threads : GracePop(t)
      \/ \E t \in Threads : PopCheck(t)
      \/ \E t \in Threads : PopAppend(t)
      \/ \E t \in Threads : PopClose(t)
      \/ \E t \in Threads : InnerTest(t)
      \/ \E t \in Threads : InnerHit(t)
      \/ \E t \in Threads : TakeSpare(t)
      \/ \E t \in Threads : NewConn(t)
      \/ \E t \in Threads : PingOkSameDb(t)
      \/ \E t \in Threads : PingOkOtherDb(t)
      \/ \E t \in Threads : SelectOk(t)
      \/ \E t \in Threads : ExecuteOk(t)
      \/ \E d \in TimeSteps : Quiet /\ Tick(d)
      \/ \E t \in Threads : Quiet /\ Die(t)

SpecSerial == Init /\ [][NextSerial]_vars

(***************************************************************************)
(* SpecSession: thread t1 starts a transaction, sends statements and ends  *)
(* it while thread t2 calls get() and time passes.  No fault is reported.  *)
(***************************************************************************)
NextSession ==
  \/ \E cmd \in {"START", "UPDATE", "COMMIT", "ROLLBACK"} : SessionCall("t1", cmd)
  \/ SessionExecute("t1")
  \/ \E db \in DbNames, r \in RetryInputs : Get("t2", db, r)
  \/ ExecuteOk("t2")
  \/ \E t \in Threads : CleanNext(t)
  \/ \E t \in Threads : GracePop(t)
  \/ \E t \in Threads : PopCheck(t)
  \/ \E t \in Threads : PopAppend(t)
  \/ \E t \in Threads : PopClose(t)
  \/ \E t \in Threads : InnerTest(t)
  \/ \E t \in Threads : InnerHit(t)
  \/ \E t \in Threads : TakeSpare(t)
  \/ \E t \in Threads : NewConn(t)
  \/ \E t \in Threads : PingOkSameDb(t)
  \/ \E t \in Threads : PingOkOtherDb(t)
  \/ \E t \in Threads : SelectOk(t)
  \/ \E d \in TimeSteps : Tick(d)

SpecSession == Init /\ [][NextSession]_vars

(***************************************************************************)
(* SpecFaults: one thread calls get() on a fresh pool and the driver       *)
(* reports up to MaxFaults faults.                                         *)
(***************************************************************************)
NextFaults ==
  \/ \E db \in DbNames, r \in RetryInputs : Get("t1", db, r)
  \/ CleanNext("t1")
  \/ InnerTest("t1")
  \/ InnerHit("t1")
  \/ NewConn("t1")
  \/ \E connected \in BOOLEAN : NewConnFails("t1", connected)
  \/ PingFails("t1")
  \/ PingOkSameDb("t1")
  \/ PingOkOtherDb("t1")
  \/ SelectFails("t1")
  \/ SelectOk("t1")
  \/ ExecuteOk("t1")
  \/ ExecuteFails("t1")

InitFaults == InitFresh /\ budget = MaxFaults /\ NoTables

SpecFaults == InitFaults /\ [][NextFaults]_vars

(***************************************************************************)
(* SpecTx: one thread runs _transaction on a fresh pool.                   *)
(***************************************************************************)
NextTx ==
  \/ \E db \in DbNames, r \in RetryInputs : Get("t1", db, r)
  \/ CleanNext("t1")
  \/ InnerTest("t1")
  \/ InnerHit("t1")
  \/ NewConn("t1")
  \/ PingOkSameDb("t1")
  \/ PingOkOtherDb("t1")
  \/ SelectOk("t1")
  \/ \E cmds \in CmdLists : TxCursor("t1", cmds)
  \/ TxExecuteOk("t1")
  \/ TxExecuteFails("t1")
  \/ TxCommit("t1")
  \/ TxExcept("t1")

InitTx == InitFresh /\ budget = 0 /\ NoTables

SpecTx == InitTx /\ [][NextTx]_vars

(***************************************************************************)
(* SpecCond: one thread makes one helper call on a fresh pool.             *)
(***************************************************************************)
NextCond ==
  \/ \E h \in Helpers, a \in HelperArgs : HelperCall("t1", h, a)
  \/ HelperEscape("t1")
  \/ EscapeDone("t1")
  \/ HelperReturn("t1")
  \/ HelperStatement("t1")
  \/ HelperStatementDone("t1")
  \/ CleanNext("t1")
  \/ InnerTest("t1")
  \/ InnerHit("t1")
  \/ NewConn("t1")
  \/ PingOkSameDb("t1")
  \/ PingOkOtherDb("t1")
  \/ SelectOk("t1")

InitCond == InitFresh /\ budget = 0 /\ NoTables

SpecCond == InitCond /\ [][NextCond]_vars

(***************************************************************************)
(* SpecTables: _createTables is called once, for a dictionary of up to     *)
(* three tables, on a database that holds some tables already.             *)
(***************************************************************************)
NextTables ==
  \/ /\ ct.stage = "none"
     /\ \E S \in SUBSET Tables, force \in BOOLEAN :
          \E fks \in [S -> SUBSET Tables], keys \in Orderings(S),
             fkOrder \in {<<"A", "B", "C">>, <<"C", "B", "A">>}, defect \in Defects(S) :
            CreateTables(S, fks, keys, fkOrder, defect, force)
  \/ CtValidate
  \/ CtRound
  \/ CtExtracted
  \/ CtCheckTable
  \/ CtCreate
  \/ CtReturn

InitTables ==
  /\ InitFresh
  /\ budget = 0
  /\ ct = CtIdle
  /\ existing \in ExistingSets

SpecTables == InitTables /\ [][NextTables]_vars

(***************************************************************************)
(* SpecInstances: MySQL objects are constructed by concurrent threads.     *)
(***************************************************************************)
NextInstances ==
  \/ \E m \in Objects, key \in CKeys, db \in DbNames : InitTest(m, key, db)
  \/ \E m \in Objects : InitCreate(m)
  \/ \E m \in Objects : InitLookup(m)

SpecInstances == InitCond /\ [][NextInstances]_vars

(***************************************************************************)
(* SpecViews: one call of _createViews; each statement succeeds or fails.  *)
(***************************************************************************)
NextViews ==
  \/ /\ ct.stage = "none"
     /\ \E S \in SUBSET Views, force \in BOOLEAN :
          \E keys \in Orderings(S) : CreateViews(keys, force)
  \/ \E ok \in BOOLEAN : CvQuery(ok)
  \/ CvReturn

SpecViews == InitCond /\ [][NextViews]_vars


(***************************************************************************)
(* Properties of the pool.                                                 *)
(***************************************************************************)

\* C1 (as claimed): two consumers never operate on the same live connection
\* at the same time, and a connection a consumer is operating on is not
\* assigned to a different consumer.
C1_NoSharedConnection ==
  \A a, b \in Threads :
    (a # b /\ using[a] # NoConn) =>
      /\ using[b] # using[a]
      /\ assigned[b].conn # using[a]

\* C2 (as claimed): in every reachable state the spare queue holds at most
\* maxSpares connections.
C2_SpareBound == Len(spares) <= maxSpares

\* C3 (as claimed): a consumer that held an assigned connection when it
\* called get() is returned that same connection.
C3_SameConnReturned ==
  \A t \in Threads :
    (pc[t] = "using" /\ loc[t].held # NoConn) => using[t] = loc[t].held

\* C3 (amended): when __innerGet finds the consumer's entry, it keeps the
\* entry's connection, sets its timestamp to the time __innerGet read, opens
\* no connection and leaves the spare queue alone; get() then returns the
\* connection __innerGet looked up without touching the spare queue or
\* opening a connection; and the caller's work on the connection
\* (query/update) leaves its assignment as it is.
C3_ReuseStep ==
  [][\A t \in Threads :
       /\ (pc[t] = "innerHit" /\ pc'[t] = "ping") =>
            /\ assigned'[t].conn = assigned[t].conn
            /\ assigned'[t].db = assigned[t].db
            /\ assigned'[t].ts = loc[t].inow
            /\ loc'[t].conn = assigned[t].conn
            /\ spares' = spares /\ opened' = opened
       /\ (pc[t] = "inner" /\ pc'[t] # "inner") => loc'[t].inow = now
       /\ (pc[t] \in {"ping", "select"} /\ pc'[t] = "using") =>
            /\ using'[t] = loc[t].conn
            /\ spares' = spares /\ opened' = opened
       /\ (pc[t] = "using" /\ pc'[t] # "using") => assigned'[t] = assigned[t]
    ]_vars

\* a consumer that held a connection has called get() again at a later time
\* and got the same connection back, its timestamp refreshed
C3_Witness ==
  \E t \in Threads :
    /\ pc[t] = "using" /\ loc[t].held # NoConn /\ using[t] = loc[t].held
    /\ assigned[t].conn = using[t] /\ assigned[t].ts = now /\ now > 0

\* C4 (as claimed): when get( dbName ) returns a connection, the schema
\* selected on that connection is dbName and the caller's entry records
\* dbName as its marker.
C4_SchemaSelected ==
  \A t \in Threads :
    pc[t] = "using" => (loc[t].gotDb = loc[t].db /\ loc[t].gotMark = loc[t].db)

\* C8 (as claimed): an operation that fails returns a failure result that
\* carries the driver's diagnostic text, and no exception reaches the caller.
C8_FailureCarriesDiagnostic ==
  \A t \in Threads :
    /\ result[t].kind # "raised"
    /\ result[t].kind = "error" => result[t].diag

(***************************************************************************)
(* Properties of _transaction.                                             *)
(***************************************************************************)

\* C5 (as claimed): a batch is all-or-nothing: when a statement of the batch
\* has failed, no statement of the batch has a durable effect; when all have
\* succeeded, all their effects are durable and commit() was called once.
C5_AllOrNothing ==
  \A t \in Threads :
    tx[t].state = "done" =>
      IF tx[t].failed # 0
        THEN persisted[t] = {}
        ELSE persisted[t] = DOMAIN tx[t].cmds /\ tx[t].commits = 1

\* C6 (as claimed): when a statement of the batch fails, rollback() is called
\* on the connection, the caller gets a failure result and no exception, and
\* no later statement of the batch is executed.
C6_RollbackThenFailure ==
  \A t \in Threads :
    (tx[t].state = "done" /\ tx[t].failed # 0) =>
      /\ tx[t].rollbacks = 1
      /\ result[t].kind = "error"
      /\ tx[t].i = tx[t].failed

(***************************************************************************)
(* Properties of buildCondition and of the helpers.                        *)
(***************************************************************************)

\* C7 (as claimed): a call of buildCondition that meets a validation failure
\* returns a typed error; no exception leaves it.
C7_TypedErrorReturned ==
  \A t \in Threads :
    (op[t].stage = "done" /\ op[t].h = "buildCondition"
       /\ BuildCondition(op[t].a).err # "") =>
      result[t].kind = "error"

\* C7 (amended): buildCondition ends a validation failure by raising an
\* exception and never returns an error value: with an ordering entry that
\* is not a string, or whose direction is neither ASC nor DESC in any case,
\* and no equality filter, time window or range given, the call raises.  A
\* helper called with such an ordering and a valid table catches the
\* exception and returns a typed error; getFields and deleteEntries never
\* let an exception reach their caller.
C7_RaisedAndCaught ==
  \A t \in Threads :
    LET a == op[t].a
        entries == IF a.order.ty = "list" THEN a.order.items ELSE <<a.order>>
        badEntry(o) ==
          \/ o.ty \notin {"none", "str"}
          \/ /\ o.ty = "str"
             /\ Cardinality({i \in DOMAIN o.s : o.s[i] = ":"}) = 1
             /\ o.s[Len(o.s)] \notin {"asc", "ASC", "Desc", "DESC"}
        firstBad == \E i \in DOMAIN entries : badEntry(entries[i])
        plainFilter == /\ a.condDict.ty = "none" \/ a.condDict.items = <<>>
                       /\ a.timeStamp.ty = "none"
    IN  op[t].stage = "done" =>
          /\ op[t].h = "buildCondition" =>
               /\ result[t].kind \in {"ok", "raised"}
               /\ (firstBad /\ plainFilter /\ a.greater.ty = "none" /\ a.smaller.ty = "none")
                    => result[t].kind = "raised"
          /\ op[t].h \in {"getFields", "deleteEntries"} =>
               /\ result[t].kind \in {"ok", "error"}
               /\ (firstBad /\ plainFilter /\ a.table.ty = "str")
                    => result[t].kind = "error"

\* buildCondition has raised for an unsupported direction, and in another
\* run getFields has returned an error for it
C7_Witness ==
  \E t \in Threads :
    /\ op[t].stage = "done"
    /\ op[t].h = "buildCondition"
    /\ op[t].a.order = PyStr(<<"a", ":", "up">>)
    /\ op[t].a.condDict = PyNone
    /\ result[t].kind = "raised"

\* C9 (as claimed): when a call fails with a configuration error, get() was
\* not called during the call (so nothing was sent to the database).
C9_NoRoundTrip ==
  \A t \in Threads :
    (op[t].stage = "done" /\ op[t].config /\ result[t].kind = "error") =>
      calls = op[t].calls0

(***************************************************************************)
(* Properties of _createTables.                                            *)
(***************************************************************************)

C11_CycleError ==
  [][(ct.stage = "extract" /\ ~ct.extracted /\ ct.tableList # <<>>) =>
       LET S == ct.dict
           stuck == UNION {V \in SUBSET S : \A x \in V : ~(ct.fks[x] \subseteq S \ V)}
       IN  /\ ct'.stage = "done"
           /\ ct'.ret = "error"
           /\ ct'.msg = "Recursive Foreign Keys"
           /\ Range(ct'.named) = stuck
           /\ Len(ct'.named) = Cardinality(stuck)
           /\ ct'.sent = <<>>]_vars

\* {A, B -> C, C -> B}: A has been extracted and the error names B and C
C11_Witness ==
  /\ ct.stage = "done"
  /\ ct.msg = "Recursive Foreign Keys"
  /\ ct.dict = Tables
  /\ ct.fks = [x \in Tables |-> IF x = "B" THEN {"C"} ELSE IF x = "C" THEN {"B"} ELSE {}]
  /\ Range(ct.named) = {"B", "C"}
  /\ Flatten(ct.creation) = <<"A">>
  /\ ct.sent = <<>>

C13_EveryViewIssued ==
  ct.stage = "done" =>
    LET n == Len(ct.sent)
    IN  /\ n <= Len(ct.keys)
        /\ \A i \in 1 .. n : ct.sent[i] = [kind |-> "view", table |-> ct.keys[i]]
        /\ ct.ret = "ok" => n = Len(ct.keys)
        /\ ct.ret = "error" => n > 0 /\ ct.named = <<ct.keys[n]>>

(***************************************************************************)
(* Properties of the texts built by buildCondition, _escapeValues and      *)
(* _quotedList.                                                            *)
(***************************************************************************)

\* C14 (as claimed): buildCondition called with only an equality map whose
\* values are numbers or lists of numbers returns a fragment in which the
\* numbers stand as bare literals, in the order of the map.
C14_BareLiterals ==
  \A t \in Threads :
    LET a == op[t].a
        items == a.condDict.items
        Numbers(v) == IF v.ty = "list" THEN [k \in DOMAIN v.items |-> v.items[k].s[1]]
                                       ELSE <<v.s[1]>>
        numeric == \A i \in DOMAIN items :
                     /\ items[i].name.ty = "str"
                     /\ \/ items[i].value.ty = "int"
                        \/ /\ items[i].value.ty = "list"
                           /\ \A k \in DOMAIN items[i].value.items :
                                items[i].value.items[k].ty = "int"
    IN  (op[t].stage = "done" /\ op[t].h = "buildCondition"
           /\ [a EXCEPT !.condDict = PyNone, !.table = PyNone] = NoArgs
           /\ a.condDict.ty = "dict" /\ numeric) =>
          /\ result[t].kind = "ok"
          /\ DoubleQuote \notin Range(op[t].text)
          /\ SelectSeq(op[t].text, LAMBDA c : c \in {"1", "2", "3"})
               = Flatten([i \in DOMAIN items |-> Numbers(items[i].value)])

\* C14 (amended): buildCondition called with only an equality map whose
\* keys are names and whose values are numbers, plain strings or lists of
\* these returns one clause per entry in the order in which the map yields
\* its entries, the first after WHERE and the others after AND, a list as
\* name IN ( v1, v2, ... ) and any other value as name = v, every value,
\* numbers too, between double quotes; each clause adds a leading blank.
C14_QuotedLiterals ==
  \A t \in Threads :
    LET a == op[t].a
        items == a.condDict.items
        n == Len(items)
        Plain(v) == v.ty = "int" \/ (v.ty = "str" /\ Len(v.s) = 1 /\ v.s[1] \in AlnumToks)
        plain == \A i \in DOMAIN items :
                   /\ items[i].name.ty = "str" /\ Len(items[i].name.s) = 1
                   /\ items[i].name.s[1] \in AlnumToks
                   /\ \/ Plain(items[i].value)
                      \/ /\ items[i].value.ty = "list"
                         /\ \A k \in DOMAIN items[i].value.items : Plain(items[i].value.items[k])
        Lit(v) == <<DoubleQuote, v.s[1], DoubleQuote>>
        Clause(i) ==
          <<" ", IF i = 1 THEN "WHERE" ELSE "AND", " ", BackTick, items[i].name.s[1], BackTick>>
            \o (IF items[i].value.ty = "list"
                  THEN <<" IN ( ">>
                         \o Join(", ", [k \in DOMAIN items[i].value.items |->
                                          Lit(items[i].value.items[k])])
                         \o <<" )">>
                  ELSE <<" = ">> \o Lit(items[i].value))
    IN  (op[t].stage = "done" /\ op[t].h = "buildCondition"
           /\ [a EXCEPT !.condDict = PyNone, !.table = PyNone] = NoArgs
           /\ a.condDict.ty = "dict" /\ plain) =>
          /\ result[t].kind = "ok"
          /\ op[t].text = [i \in 1 .. n |-> " "] \o Flatten([i \in 1 .. n |-> Clause(i)])

\* buildCondition( { 'a': 1, 'b': 2 } ) has returned
\*    WHERE `a` = "1" AND `b` = "2"
C14_Witness ==
  \E t \in Threads :
    /\ op[t].stage = "done"
    /\ op[t].h = "buildCondition"
    /\ op[t].a.condDict = PyDict(<<Pair(Name("a"), PyInt("1")), Pair(Name("b"), PyInt("2"))>>)
    /\ result[t].kind = "ok"
    /\ op[t].text = <<" ", " ", " ", "WHERE", " ", BackTick, "a", BackTick, " = ",
                      DoubleQuote, "1", DoubleQuote, " ", "AND", " ", BackTick, "b", BackTick,
                      " = ", DoubleQuote, "2", DoubleQuote>>

\* C15: when insertFields has escaped a list of values with success, the
\* escaped list has the length of the list of values, and its i-th element
\* is the literal text of the i-th value if that is a boolean and the i-th
\* value between double quotes if it is a plain string or a number.
C15_SameLength ==
  \A t \in Threads :
    LET values == op[t].a.values
        r == EscapeValues(values)
    IN  (op[t].stage = "done" /\ op[t].h = "insertFields" /\ result[t].kind = "ok"
           /\ op[t].gets > 0 /\ values.ty = "list") =>
          /\ r.ok
          /\ Len(r.texts) = Len(values.items)
          /\ \A i \in DOMAIN values.items :
               LET v == values.items[i]
               IN  /\ v.ty = "bool" => r.texts[i] = v.s
                   /\ (v.ty = "int" \/ (v.ty = "str" /\ v.s[1] \in AlnumToks)) =>
                        r.texts[i] = <<DoubleQuote>> \o v.s \o <<DoubleQuote>>

\* C16: the quoted form of a table name that is a string is the name
\* without its backticks between two backticks, it holds exactly two
\* backticks, and it is what countEntries puts after FROM in its statement.
C16_QuotedIdentifier ==
  \A t \in Threads :
    LET name == op[t].a.table.s
        stripped == SelectSeq(name, LAMBDA c : c # BackTick)
        q == QuotedList(PyList(<<op[t].a.table>>))
    IN  (op[t].stage \in {"query", "done"} /\ op[t].h = "countEntries"
           /\ op[t].a.table.ty = "str" /\ op[t].text # <<>>) =>
          /\ ~q.none
          /\ q.text = <<BackTick>> \o stripped \o <<BackTick>>
          /\ Cardinality({i \in DOMAIN q.text : q.text[i] = BackTick}) = 2
          /\ SubSeq(op[t].text, 1, 1 + Len(q.text)) = <<"SELECT COUNT(*) FROM ">> \o q.text

\* countEntries has sent its statement for a table name with three
\* backticks in it
C16_Witness ==
  \E t \in Threads :
    /\ op[t].stage = "done"
    /\ op[t].h = "countEntries"
    /\ op[t].a.table = PyStr(<<BackTick, "t", BackTick, BackTick, "x">>)
    /\ result[t].kind = "ok"
    /\ SubSeq(op[t].text, 1, 5) = <<"SELECT COUNT(*) FROM ", BackTick, "t", "x", BackTick>>

(***************************************************************************)
(* Properties of MySQL.__init__.                                           *)
(***************************************************************************)

\* C17: at most one ConnectionPool is ever created for a connection key,
\* and the MySQL objects constructed with the same key hold the same pool,
\* whatever their schema.
C17_OnePoolPerKey ==
  /\ \A k \in CKeys :
       Cardinality({i \in DOMAIN instances.created : instances.created[i] = k}) <= 1
  /\ \A m1, m2 \in Objects :
       (/\ instances.object[m1].stage = "done"
        /\ instances.object[m2].stage = "done"
        /\ instances.object[m1].key = instances.object[m2].key) =>
         instances.object[m1].pool = instances.object[m2].pool

(***************************************************************************)
(* Properties of the retries of get().                                     *)
(***************************************************************************)

\* C18: when a ping fails and get() tries again, the assignment of the
\* caller has been dropped and retriesLeft is one lower than before.
C18_PingRetryDecrements ==
  [][\A t \in Threads :
       (pc[t] = "ping" /\ pc'[t] = "inner") =>
         /\ assigned'[t] = NoEntry
         /\ loc'[t].left = loc[t].left - 1]_vars

\* C19: in a call get( schema, R ), R clamped into 0 .. 10, in which no
\* attempt was made again after a failed ping, __getWithRetry is entered at
\* most R + 1 times: the initial attempt and at most R retries.
C19_AttemptsBounded ==
  \A t \in Threads :
    (\A i \in DOMAIN loc[t].slept : loc[t].slept[i].after # "ping") =>
      Len(loc[t].slept) <= loc[t].total + 1

\* C20: in a call of get(), the first attempt is preceded by no sleep and
\* the k-th attempt after it by a sleep of 5 * k seconds, whatever failure
\* led to it.
C20_LinearBackoff ==
  \A t \in Threads :
    \A i \in DOMAIN loc[t].slept : loc[t].slept[i].secs = 5 * (i - 1)

(***************************************************************************)
(* Properties of clean().                                                  *)
(***************************************************************************)

\* C21: when clean() has run from its first statement to its last with no
\* step of another thread in between, no entry is left whose thread is not
\* alive or whose idle time (the time clean() read minus the entry's
\* timestamp) exceeds graceTime; every entry of a live thread whose idle time
\* is at most graceTime is left as it was (connection, schema marker,
\* timestamp); and every connection taken out of __assigned was either
\* appended once to __spares, with its marker, or closed, not both, while
\* the spares and the closed connections of before are as they were.
C21_CleanSweep ==
  [][\A t \in Threads :
       (pc[t] = "clean" /\ loc[t].clist = <<>> /\ pc'[t] = "inner") =>
         LET a0 == loc[t].cstart[1]
             s0 == loc[t].cstart[2]
             c0 == loc[t].cstart[3]
             held == {u \in Threads : a0[u] # NoEntry}
             gone == {u \in held : ~alive[u] \/ loc[t].cnow - a0[u].ts > graceTime}
             added == {i \in DOMAIN spares : i > Len(s0)}
         IN  /\ \A u \in Threads \ gone : assigned[u] = a0[u]
             /\ \A u \in gone : assigned[u] = NoEntry
             /\ Len(spares) >= Len(s0) /\ SubSeq(spares, 1, Len(s0)) = s0
             /\ c0 \subseteq closed
             /\ \A u \in gone :
                  LET queued == {i \in added : spares[i].conn = a0[u].conn} IN
                  /\ Cardinality(queued) = IF a0[u].conn \in closed \ c0 THEN 0 ELSE 1
                  /\ \A i \in queued : spares[i].db = a0[u].db
             /\ \A i \in added : \E u \in gone : spares[i].conn = a0[u].conn
             /\ \A c \in closed \ c0 : \E u \in gone : c = a0[u].conn
    ]_vars

\* clean() is at its end, having removed the entry of one thread and kept
\* the entry of another
C21_Witness ==
  \E t \in Threads :
    /\ pc[t] = "clean" /\ loc[t].clist = <<>>
    /\ \E u, v \in Threads :
         /\ loc[t].cstart[1][u] # NoEntry /\ assigned[u] = NoEntry
         /\ loc[t].cstart[1][v] # NoEntry /\ assigned[v] = loc[t].cstart[1][v]

(***************************************************************************)
(* Properties of the pool's synchronisation.                               *)
(***************************************************************************)

\* C22 (as claimed): the sections of get()/clean() that read and then
\* modify __assigned or __spares exclude one another: no two threads are at
\* the same time between the membership test of __innerGet and the update of
\* the mapping that follows it, or between the idle test of clean() (or the
\* pop of __pop) and the append or close that ends __pop.
C22_MutualExclusion ==
  LET critical == {"innerHit", "innerMiss", "gracePop", "popCheck", "popAppend",
                   "popClose"}
  IN  \A a, b \in Threads :
        a # b => ~(pc[a] \in critical /\ pc[b] \in critical)

(***************************************************************************)
(* Properties of the fragment buildCondition returns.                      *)
(***************************************************************************)

\* C23 (as claimed): in the fragment buildCondition returns, the clauses are
\* those of the equality map, then newer (>=), then older (<), then the
\* greater map (>=), then the smaller map (<), in that order; the first of
\* them is introduced by WHERE and each later one by AND, so that WHERE
\* stands exactly once when there is a clause and not at all when there is
\* none.
C23_WhereOnce ==
  \A t \in Threads :
    (op[t].h = "buildCondition" /\ op[t].stage = "done" /\ result[t].kind = "ok") =>
      LET a == op[t].a
          IsConj(x) == x \in {"WHERE", "AND"}
          IsOpr(x) == x \in {" = ", " IN ( ", " >= ", " < "}
          Oprs(d, opr) == IF d.ty = "dict" THEN [k \in DOMAIN d.items |-> opr] ELSE <<>>
          equalities == IF a.condDict.ty = "dict"
                          THEN [k \in DOMAIN a.condDict.items |->
                                  IF a.condDict.items[k].value.ty = "list" THEN " IN ( "
                                                                           ELSE " = "]
                          ELSE <<>>
          window == IF Truthy(a.timeStamp)
                      THEN (IF Truthy(a.newer) THEN <<" >= ">> ELSE <<>>)
                             \o (IF Truthy(a.older) THEN <<" < ">> ELSE <<>>)
                      ELSE <<>>
          clauses == equalities \o window \o Oprs(a.greater, " >= ")
                       \o Oprs(a.smaller, " < ")
      IN  /\ SelectSeq(op[t].text, IsOpr) = clauses
          /\ SelectSeq(op[t].text, IsConj) =
               [k \in DOMAIN clauses |-> IF k = 1 THEN "WHERE" ELSE "AND"]

\* C24 (as claimed): buildCondition accepts an ordering entry only if it is
\* a text of the form field or field:DIR, DIR being ASC or DESC in any case:
\* a call with an entry that carries anything else after its first colon (a
\* second colon included) fails; and in a call that succeeds the fields of
\* the entries stand in the ORDER BY clause in the order of the list.
C24_OrderingValidated ==
  \A t \in Threads :
    (op[t].h = "buildCondition" /\ op[t].stage = "done") =>
      LET a == op[t].a
          text == op[t].text
          Given(e) == e.ty # "none"
          entries == SelectSeq(IF a.order.ty = "list" THEN a.order.items ELSE <<a.order>>,
                               Given)
          WellFormed(e) ==
            /\ e.ty = "str"
            /\ \/ Len(Split(e.s, ":")) = 1
               \/ /\ Len(Split(e.s, ":")) = 2
                  /\ Upper(Split(e.s, ":")[2]) \in {<<"ASC">>, <<"DESC">>}
          first == {i \in DOMAIN text : text[i] = " ORDER BY "}
          last == {i \in DOMAIN text : text[i] = " LIMIT "} \cup {Len(text) + 1}
          clause == IF first = {} THEN <<>>
                    ELSE SubSeq(text, (CHOOSE i \in first : TRUE) + 1,
                                (CHOOSE i \in last : \A j \in last : i <= j) - 1)
          IsName(x) == x \notin {" ", ", ", ":", BackTick, "ASC", "DESC"}
          Field(e) == Remove(Split(e.s, ":")[1], BackTick)
      IN  /\ (\E k \in DOMAIN entries : ~WellFormed(entries[k])) => result[t].kind # "ok"
          /\ result[t].kind = "ok" =>
               SelectSeq(clause, IsName) = Flatten([k \in DOMAIN entries |-> Field(entries[k])])

(***************************************************************************)
(* Properties of the foreign-key validation of _createTables.              *)
(***************************************************************************)

\* C25 (as claimed): whenever a foreign key of a table of the request names
\* a field its table does not have, or a field the target table does not
\* have, _createTables returns the error that names that field and its
\* table (the table itself in the first case, the target in the second),
\* having dropped and created nothing.
C25_FieldErrorNamed ==
  LET keyed == {x \in ct.dict : ct.fks[x] # {}}
      bad == keyed \cap (ct.defect.badKey \cup ct.defect.badForKey)
  IN  (ct.stage = "done" /\ bad # {}) =>
        /\ ct.ret = "error" /\ ct.sent = <<>> /\ existing = ct.existing0
        /\ \/ /\ ct.msg = "ForeignKey not defined in Primary table"
              /\ \E x \in bad \cap ct.defect.badKey : ct.named = <<x>>
           \/ /\ ct.msg = "ForeignKey not defined in Auxiliary table"
              /\ \E x \in bad \cap ct.defect.badForKey :
                   \E y \in ct.fks[x] : ct.named = <<y>>

\* C25 (amended): in that case _createTables returns an error having
\* dropped and created nothing.  The error names the field and the table as
\* above when the loop that orders the tables reaches the key, its target
\* being extracted already.  Otherwise the error is that of the defect
\* found before: a table without Fields, or foreign keys that cannot be
\* ordered, the table of the key being among the tables that error names.
C25_ConfigurationError ==
  LET keyed == {x \in ct.dict : ct.fks[x] # {}}
      bad == keyed \cap (ct.defect.badKey \cup ct.defect.badForKey)
  IN  (ct.stage = "done" /\ bad # {}) =>
        /\ ct.ret = "error" /\ ct.sent = <<>> /\ existing = ct.existing0
        /\ \/ /\ ct.msg = "ForeignKey not defined in Primary table"
              /\ \E x \in bad \cap ct.defect.badKey :
                   ct.named = <<x>> /\ ct.fks[x] \cap Range(ct.aux \o ct.creation[ct.i + 1]) # {}
           \/ /\ ct.msg = "ForeignKey not defined in Auxiliary table"
              /\ \E x \in bad \cap ct.defect.badForKey :
                   \E y \in ct.fks[x] :
                     ct.named = <<y>> /\ y \in Range(ct.aux \o ct.creation[ct.i + 1])
           \/ /\ ct.msg = "Missing Fields key"
              /\ ct.defect.noFields # {}
           \/ /\ ct.msg = "Recursive Foreign Keys"
              /\ bad \subseteq Range(ct.named)

\* _createTables has returned the error that names the target table of a
\* key whose field the target does not have
C25_Witness ==
  /\ ct.stage = "done" /\ ct.ret = "error"
  /\ ct.msg = "ForeignKey not defined in Auxiliary table"
  /\ \E x \in ct.dict \cap ct.defect.badForKey : ct.named # <<x>> /\ ct.sent = <<>>

(***************************************************************************)
(* Properties of the pool's bookkeeping of connections.                    *)
(***************************************************************************)

\* C26 (as claimed): every connection the pool has opened is in exactly one
\* of these places: the entry of one thread in __assigned, one position of
\* __spares, the hands of a __pop that is about to queue or close it, or
\* closed.  A connection whose entry was dropped after a failed ping is thus
\* closed.
C26_ConnectionAccounted ==
  \A c \in 1 .. opened :
    LET owners == Cardinality({t \in Threads : assigned[t].conn = c})
        queued == Cardinality({i \in DOMAIN spares : spares[i].conn = c})
        moving == Cardinality({t \in Threads : loc[t].pdata.conn = c})
        shut == IF c \in closed THEN 1 ELSE 0
    IN  owners + queued + moving + shut = 1

(***************************************************************************)
(* Properties of the pool's transactions.                                  *)
(***************************************************************************)

\* C27 (as claimed): when transactionStart has returned success, the
\* transaction it started is open on the connection it was started on, and
\* stays open until the thread's transactionCommit or transactionRollback
\* is executed; after the rollback no statement the thread sent since the
\* start has a durable effect.
C27_TransactionStaysOpen ==
  \A t \in Threads :
    LET log == tx[t].log IN
    (log # <<>> /\ pc[t] = "idle") =>
      /\ log[Len(log)].cmd \in {"START", "UPDATE"} => tx[t].on = log[1].conn
      /\ log[Len(log)].cmd = "ROLLBACK" => persisted[t] = {}

\* C28 (as claimed): the calls of one transaction (transactionStart, the
\* statements that follow, transactionCommit or transactionRollback) are
\* all executed on the same connection, whatever the other thread does,
\* whatever the spare queue holds and however much time passes between the
\* calls.
C28_OneConnection ==
  \A t \in Threads :
    \A i, j \in DOMAIN tx[t].log : tx[t].log[i].conn = tx[t].log[j].conn

(***************************************************************************)
(* Properties of the helpers built on buildCondition.                      *)
(***************************************************************************)

\* C29 (as claimed): the statement that countEntries, getCounters,
\* getDistinctAttributeValues, getFields, deleteEntries or updateFields
\* sends holds, as its condition, the fragment buildCondition builds from
\* the arguments the caller gave, the greater and smaller maps included.
C29_CallerBoundsUsed ==
  \A t \in Threads :
    (op[t].stage = "query" /\ op[t].h \notin {"buildCondition", "insertFields"}) =>
      LET text == op[t].text
          Holds(bc) ==
            bc.err = "" =>
              \E k \in 0 .. (Len(text) - Len(bc.cond)) :
                SubSeq(text, k + 1, k + Len(bc.cond)) = bc.cond
      IN  Holds(BuildCondition([CondArgs(op[t].h, op[t].a) EXCEPT
                                  !.greater = op[t].a.greater,
                                  !.smaller = op[t].a.smaller]))

\* C30 (as claimed): in the fragment buildCondition returns, the column
\* name in front of every comparison and the field of every ordering entry,
\* with or without a direction, stand between two backticks with no
\* backtick inside: they went through _quotedList.
C30_IdentifiersQuoted ==
  \A t \in Threads :
    (op[t].h = "buildCondition" /\ op[t].stage = "done" /\ result[t].kind = "ok") =>
      LET text == op[t].text
          first == {i \in DOMAIN text : text[i] = " ORDER BY "}
          last == {i \in DOMAIN text : text[i] = " LIMIT "} \cup {Len(text) + 1}
          from == IF first = {} THEN Len(text) + 1 ELSE CHOOSE i \in first : TRUE
          to == CHOOSE i \in last : \A j \in last : i <= j
          IsOpr(x) == x \in {" = ", " IN ( ", " >= ", " < "}
          IsName(x) == x \notin {" ", ", ", ":", BackTick, "ASC", "DESC"}
      IN  /\ \A i \in 1 .. (from - 1) :
               IsOpr(text[i]) =>
                 /\ i > 3 /\ text[i - 1] = BackTick /\ text[i - 3] = BackTick
                 /\ IsName(text[i - 2])
          /\ \A i \in (from + 1) .. (to - 1) :
               IsName(text[i]) =>
                 /\ text[i - 1] = BackTick
                 /\ i < to - 1 /\ text[i + 1] = BackTick

====
